---- MODULE Spec2Model ----
(***************************************************************************)
(* NAK pre-RA instruction scheduler (opt_instr_sched_prepass.rs): the      *)
(* schedule-mode driver Function::opt_instr_sched_prepass, the schedule    *)
(* units, sched_buffer, generate_dep_graph, NetLive, the scoring functions *)
(* and GenerateOrder::generate_order, as a state machine.                  *)
(*                                                                         *)
(* Indices are 1-based here (a TLA+ sequence) where the Rust code is       *)
(* 0-based; every order on indices is kept.                                *)
(***************************************************************************)
EXTENDS Integers, Sequences, FiniteSets, TLC

\* ------------------------------------------------------------------ bounds

\* Longest instruction sequence of an input function.
MaxInstrs == 4

\* ------------------------------------------------------- program constants

SW_RESERVED_GPRS == 2
SW_RESERVED_GPRS_SPILL == 2
TARGET_FREE == 4
TOTAL_REGS == 65536

\* --------------------------------------------------------------- the IR

RegFiles == {"GPR", "UGPR", "Pred", "UPred", "Carry", "Bar", "Mem"}

\* SSA values are numbers; the register file is a label of the value.
FileOf(s) == IF s < 10 THEN "GPR" ELSE "Pred"

ZeroCount == [f \in RegFiles |-> 0]

\* LiveSet::count(file)
Count(set, f) == Cardinality({s \in set : FileOf(s) = f})

Counts(set) == [f \in RegFiles |-> Count(set, f)]

Max(a, b) == IF a >= b THEN a ELSE b

Min(a, b) == IF a <= b THEN a ELSE b

RECURSIVE Flatten(_)
\* All SSA values of a list of operands (srcs() / dsts() with iter_ssa()).
Flatten(ss) == IF ss = <<>> THEN <<>> ELSE Head(ss) \o Flatten(Tail(ss))

Range(sq) == {sq[i] : i \in DOMAIN sq}

\* The instructions input functions are built from.  side is
\* side_effect_type(op); dsts / srcs list, per operand, its SSA values; pred
\* is the predicate guard (empty or one SSA value); raw / paw are what
\* raw_latency / paw_latency return with this instruction as the producer;
\* fixed is has_fixed_latency(sm), virtual is is_virtual(), var is
\* estimate_variable_latency(sm, op).
Pool ==
  << [side |-> "None",    dsts |-> << <<1>> >>,    srcs |-> << >>,
      pred |-> << >>, raw |-> 4, paw |-> 0,  fixed |-> TRUE,  virtual |-> FALSE, var |-> 0],
     [side |-> "None",    dsts |-> << <<2>> >>,    srcs |-> << >>,
      pred |-> << >>, raw |-> 6, paw |-> 0,  fixed |-> TRUE,  virtual |-> FALSE, var |-> 0],
     [side |-> "None",    dsts |-> << <<3>> >>,    srcs |-> << <<1>>, <<2>> >>,
      pred |-> << >>, raw |-> 4, paw |-> 0,  fixed |-> TRUE,  virtual |-> FALSE, var |-> 0],
     [side |-> "Memory",  dsts |-> << <<4>> >>,    srcs |-> << <<1>> >>,
      pred |-> << >>, raw |-> 2, paw |-> 0,  fixed |-> FALSE, virtual |-> FALSE, var |-> 8],
     [side |-> "Memory",  dsts |-> << >>,          srcs |-> << <<1>>, <<2>> >>,
      pred |-> << >>, raw |-> 0, paw |-> 0,  fixed |-> FALSE, virtual |-> FALSE, var |-> 8],
     [side |-> "None",    dsts |-> << <<11>> >>,   srcs |-> << >>,
      pred |-> << >>, raw |-> 4, paw |-> 12, fixed |-> TRUE,  virtual |-> FALSE, var |-> 0],
     [side |-> "None",    dsts |-> << <<5>> >>,    srcs |-> << <<1>> >>,
      pred |-> <<11>>, raw |-> 4, paw |-> 0, fixed |-> TRUE,  virtual |-> FALSE, var |-> 0],
     [side |-> "Barrier", dsts |-> << >>,          srcs |-> << >>,
      pred |-> << >>, raw |-> 0, paw |-> 0,  fixed |-> TRUE,  virtual |-> FALSE, var |-> 0],
     [side |-> "None",    dsts |-> << <<6, 7, 9>> >>, srcs |-> << <<1>> >>,
      pred |-> << >>, raw |-> 2, paw |-> 0,  fixed |-> FALSE, virtual |-> FALSE, var |-> 6],
     [side |-> "Memory",  dsts |-> << >>,          srcs |-> << <<6, 7, 9>>, <<2>> >>,
      pred |-> << >>, raw |-> 0, paw |-> 0,  fixed |-> FALSE, virtual |-> FALSE, var |-> 8],
     [side |-> "None",    dsts |-> << <<8>> >>,    srcs |-> << <<2>>, <<2>> >>,
      pred |-> << >>, raw |-> 4, paw |-> 0,  fixed |-> TRUE,  virtual |-> TRUE,  var |-> 0],
     [side |-> "None",    dsts |-> << <<11>> >>,   srcs |-> << >>,
      pred |-> << >>, raw |-> 4, paw |-> 2,  fixed |-> FALSE, virtual |-> TRUE,  var |-> 8],
     [side |-> "None",    dsts |-> << <<6, 7, 9>> >>, srcs |-> << <<1>>, <<2>> >>,
      pred |-> << >>, raw |-> 4, paw |-> 0,  fixed |-> TRUE,  virtual |-> FALSE, var |-> 0] >>

Instr(id) == Pool[id]

\* Instr::for_each_ssa_def
Defs(id) == Range(Flatten(Pool[id].dsts))

\* The SSA values read as sources (srcs() with iter_ssa())
SrcUses(id) == Range(Flatten(Pool[id].srcs))

\* Instr::for_each_ssa_use: the sources and the predicate guard
Uses(id) == SrcUses(id) \cup Range(Pool[id].pred)

\* -------------------------------------------------------------- scoring

\* A ladder that spills UGPR to GPR before UPred has been spilled to UGPR.
SPILL_FILES_uniform_late ==
  << <<"Bar", "GPR", 12>>, <<"Pred", "GPR", 18>>, <<"UGPR", "GPR", 21>>,
     <<"UPred", "UGPR", 18>>, <<"GPR", "Mem", 64>> >>

SPILL_FILES ==
  << <<"Bar", "GPR", 12>>, <<"Pred", "GPR", 18>>, <<"UPred", "UGPR", 18>>,
     <<"UGPR", "GPR", 21>>, <<"GPR", "Mem", 64>> >>

RECURSIVE SpillLadder(_, _, _)
\* The loop of calc_used_gprs from ladder entry i on: the excess of the
\* source file is added to the destination file before that is examined.
SpillLadder(p, max_regs, i) ==
  IF i > Len(SPILL_FILES) THEN p
  ELSE LET src == SPILL_FILES[i][1]
           dest == SPILL_FILES[i][2]
           q == IF p[src] > max_regs[src]
                THEN [p EXCEPT ![dest] = @ + (p[src] - max_regs[src])]
                ELSE p
       IN SpillLadder(q, max_regs, i + 1)

calc_used_gprs(p, max_regs) == SpillLadder(p, max_regs, 1)["GPR"]

RECURSIVE ScorePart(_, _, _, _, _)
ScorePart(p, max_regs, i, badness, goodness) ==
  IF i > Len(SPILL_FILES) THEN <<badness, goodness>>
  ELSE LET src == SPILL_FILES[i][1]
           dest == SPILL_FILES[i][2]
           weight == SPILL_FILES[i][3]
       IN IF p[src] > max_regs[src]
          THEN LET spill_count == p[src] - max_regs[src]
               IN ScorePart([p EXCEPT ![dest] = @ + spill_count], max_regs, i + 1,
                            badness + spill_count * weight, goodness)
          ELSE ScorePart(p, max_regs, i + 1, badness,
                         goodness + (max_regs[src] - p[src]) * weight)

calc_score_part(p, max_regs) == ScorePart(p, max_regs, 1, 0, 0)

\* A Score (bool, Reverse<i32>, i32) is <<usable, badness, goodness>>; the
\* Reverse is in ScoreLess.
\* A score that counts the delay in the instruction's favour.
calc_score_delay_favoured(net, peak1, peak2, max_regs, delay_cycles, th) ==
  LET peak_gprs == Max(calc_used_gprs(peak1, max_regs),
                       calc_used_gprs(peak2, max_regs))
      part == calc_score_part(net, max_regs)
  IN IF peak_gprs > th.quit_threshold
     THEN <<FALSE, 0, 0>>
     ELSE <<TRUE, part[1] - delay_cycles, part[2]>>

calc_score(net, peak1, peak2, max_regs, delay_cycles, th) ==
  LET peak_gprs == Max(calc_used_gprs(peak1, max_regs),
                       calc_used_gprs(peak2, max_regs))
  IN IF peak_gprs > th.quit_threshold
     THEN <<FALSE, 0, 0>>
     ELSE LET part == calc_score_part(net, max_regs)
          IN <<TRUE, part[1] + delay_cycles, part[2]>>

\* An order of Score that looks at the goodness before the badness.
ScoreLess_goodness_first(a, b) ==
  \/ (~a[1]) /\ b[1]
  \/ a[1] = b[1] /\ a[3] < b[3]
  \/ a[1] = b[1] /\ a[3] = b[3] /\ a[2] > b[2]

\* The derived lexicographic order of Score: false < true, then the smaller
\* badness is the greater, then the goodness.
ScoreLess(a, b) ==
  \/ (~a[1]) /\ b[1]
  \/ a[1] = b[1] /\ a[2] > b[2]
  \/ a[1] = b[1] /\ a[2] = b[2] /\ a[3] < b[3]

\* ------------------------------------------------------ occupancy cliffs

prev_multiple_of(x, y) == (x \div y) * y

next_multiple_of(x, y) == ((x + y - 1) \div y) * y

\* Warps per SM that fit when every thread uses gprs registers: registers are
\* allocated in multiples of 8 and warps in multiples of 4.
occupancy_in_warps_per_sm(gprs) ==
  Min(prev_multiple_of((TOTAL_REGS \div 32) \div next_multiple_of(Max(gprs, 1), 8), 4),
      48)

\* A cliff that is not rounded down to the allocation granularity.
next_occupancy_cliff_unrounded(x) ==
  TOTAL_REGS \div Max(occupancy_in_warps_per_sm(x) * 32, 1)

next_occupancy_cliff(x) ==
  LET threads == Max(occupancy_in_warps_per_sm(x) * 32, 1)
  IN prev_multiple_of(TOTAL_REGS \div threads, 8)

\* A cliff rounded down from the request instead of up to the next cliff.
cliff_below_with_reserved(gprs, reserved) ==
  prev_multiple_of(gprs + reserved, 8) - reserved

next_occupancy_cliff_with_reserved(gprs, reserved) ==
  next_occupancy_cliff(gprs + reserved) - reserved

\* ------------------------------------------------------- schedule types

RegLimit(g) == [kind |-> "RegLimit", g |-> g]

Spill == [kind |-> "Spill", g |-> 0]

NoType == [kind |-> "None", g |-> 0]

\* Thresholds that leave no GPR free before scheduling for pressure.
thresholds_no_free(schedule_type, max_regs, peak_gpr_count) ==
  [heuristic_threshold |-> IF schedule_type.kind = "RegLimit" THEN schedule_type.g
                           ELSE max_regs["GPR"],
   quit_threshold |-> IF schedule_type.kind = "RegLimit" THEN schedule_type.g
                      ELSE peak_gpr_count]

\* ScheduleType::thresholds
thresholds(schedule_type, max_regs, peak_gpr_count) ==
  IF schedule_type.kind = "RegLimit"
  THEN [heuristic_threshold |-> schedule_type.g - TARGET_FREE,
        quit_threshold |-> schedule_type.g]
  ELSE [heuristic_threshold |-> max_regs["GPR"] - SW_RESERVED_GPRS_SPILL - TARGET_FREE,
        quit_threshold |-> peak_gpr_count]

RECURSIVE CliffLoop(_, _, _, _, _)
\* The while loop of get_schedule_types and what follows it.
CliffLoop(max_regs, max_gpr_target, reserved_gprs, gpr_target, out) ==
  IF gpr_target < max_regs["GPR"]
  THEN LET out1 == Append(out, RegLimit(gpr_target))
       IN IF gpr_target >= max_gpr_target
          THEN out1
          ELSE CliffLoop(max_regs, max_gpr_target, reserved_gprs,
                         next_occupancy_cliff_with_reserved(gpr_target + 1, reserved_gprs),
                         out1)
  ELSE LET out1 == Append(out, RegLimit(max_regs["GPR"] - SW_RESERVED_GPRS))
       IN IF max_gpr_target > max_regs["GPR"] THEN Append(out1, Spill) ELSE out1

\* A list that ends with Spill whether or not the original order spilled.
get_schedule_types_spill(max_regs, min_gpr_target, max_gpr_target, reserved_gprs) ==
  Append(SelectSeq(CliffLoop(max_regs, max_gpr_target, reserved_gprs,
                             next_occupancy_cliff_with_reserved(min_gpr_target,
                                                                reserved_gprs),
                             <<>>),
                   LAMBDA t : t.kind = "RegLimit"),
         Spill)

get_schedule_types(max_regs, min_gpr_target, max_gpr_target, reserved_gprs) ==
  CliffLoop(max_regs, max_gpr_target, reserved_gprs,
            next_occupancy_cliff_with_reserved(min_gpr_target, reserved_gprs), <<>>)

\* -------------------------------------------------------------- liveness
\* SimpleLiveness of a function whose blocks fall through in a chain: block
\* b + 1 is the only successor of block b, block b - 1 its only predecessor.

BlockDefs(blk) == UNION {Defs(blk[ip]) : ip \in DOMAIN blk}

\* The values a block reads before it defines them.
BlockUpwardUses(blk) ==
  UNION {{s \in Uses(blk[ip]) : \A jp \in 1..(ip - 1) : s \notin Defs(blk[jp])}
           : ip \in DOMAIN blk}

RECURSIVE LiveIn(_, _)
LiveIn(blks, b) ==
  IF b > Len(blks) THEN {}
  ELSE BlockUpwardUses(blks[b]) \cup (LiveIn(blks, b + 1) \ BlockDefs(blks[b]))

LiveOut(blks, b) == LiveIn(blks, b + 1)

\* BlockLiveness::is_live_after_ip
is_live_after_ip(blks, b, s, ip) ==
  \/ s \in LiveOut(blks, b)
  \/ \E jp \in DOMAIN blks[b] : jp > ip /\ s \in Uses(blks[b][jp])

VectorDefs(id) == UNION {Range(d) : d \in {x \in Range(Pool[id].dsts) : Len(x) > 1}}

ScalarDefs(id) == UNION {Range(d) : d \in {x \in Range(Pool[id].dsts) : Len(x) = 1}}

\* LiveSet::insert_instr_top_down: the live set after the instruction and the
\* largest count of each file while it executes.  Vector destinations go
\* live before the sources are killed, scalar destinations after.
insert_instr_top_down(live, blks, b, ip) ==
  LET id == blks[b][ip]
      l1 == live \cup VectorDefs(id)
      l2 == l1 \ {s \in Uses(id) : ~is_live_after_ip(blks, b, s, ip)}
      l3 == l2 \cup ScalarDefs(id)
      l4 == l3 \ {s \in Defs(id) : ~is_live_after_ip(blks, b, s, ip)}
  IN [live |-> l4,
      counts |-> [f \in RegFiles |-> Max(Count(l3, f), Count(l1, f))]]

\* The live set a block starts with: the first predecessor's live-out
\* values that are live-in to the block.
BlockStartLive(blks, b, pred_live_out) ==
  IF b = 1 THEN {} ELSE {s \in pred_live_out : s \in LiveIn(blks, b)}

RECURSIVE MaxLiveWalk(_, _, _, _, _)
\* Liveness::calc_max_live from instruction ip of block b on.
MaxLiveWalk(blks, b, ip, live, max_live) ==
  IF b > Len(blks) THEN max_live
  ELSE IF ip > Len(blks[b])
       THEN MaxLiveWalk(blks, b + 1, 1, BlockStartLive(blks, b + 1, live), max_live)
       ELSE LET r == insert_instr_top_down(live, blks, b, ip)
            IN MaxLiveWalk(blks, b, ip + 1, r.live,
                           [f \in RegFiles |-> Max(max_live[f], r.counts[f])])

calc_max_live(blks) == MaxLiveWalk(blks, 1, 1, {}, ZeroCount)

\* ------------------------------------------------------ dependency graph

\* A classification that knows no side effects.
side_effect_none(id) == "None"

\* side_effect_type(op)
side_effect_type(id) == Pool[id].side

\* The defs map when instruction ip is reached: where ssa was defined by an
\* earlier instruction of the slice, as <<def_ip, def_idx>> (the last insert
\* wins), or <<>> when the map has no entry.
DefSite(instrs, ip, ssa) ==
  LET sites == {<<dp, di>> \in (1..(ip - 1)) \X (1..3) :
                  /\ di <= Len(Pool[instrs[dp]].dsts)
                  /\ ssa \in Range(Pool[instrs[dp]].dsts[di])}
  IN IF sites = {} THEN <<>>
     ELSE CHOOSE x \in sites :
            \A y \in sites : y[1] < x[1] \/ (y[1] = x[1] /\ y[2] <= x[2])

\* raw_latency(sm, def.op, def_idx, use.op, src_idx)
RawLatency(def_id) == Pool[def_id].raw

\* paw_latency(sm, def.op, def_idx)
PawLatency(def_id) == Pool[def_id].paw

\* The latency of the edge for a source read of a value defined by def_id.
SrcEdgeLatency(def_id) ==
  IF ~Pool[def_id].virtual /\ ~Pool[def_id].fixed
  THEN Max(RawLatency(def_id), Pool[def_id].var)
  ELSE RawLatency(def_id)

\* The latency of the edge for a predicate guard defined by def_id.
PredEdgeLatency(def_id) ==
  IF ~Pool[def_id].fixed
  THEN Max(PawLatency(def_id), Pool[def_id].var)
  ELSE PawLatency(def_id)

\* The last Memory instruction before ip, or 0.
LastMemoryOp(instrs, ip) ==
  LET mem == {mp \in 1..(ip - 1) : side_effect_type(instrs[mp]) = "Memory"}
  IN IF mem = {} THEN 0 ELSE CHOOSE mp \in mem : \A x \in mem : x <= mp

\* A dependency graph without the edges between Memory instructions.
NoMemoryEdges(instrs, ip) == <<>>

\* The edge between consecutive Memory instructions.
MemoryEdges(instrs, ip) ==
  IF side_effect_type(instrs[ip]) = "Memory" /\ LastMemoryOp(instrs, ip) # 0
  THEN << [tail |-> LastMemoryOp(instrs, ip), head |-> ip, latency |-> 0] >>
  ELSE << >>

\* A dependency graph without the edges for source reads.
NoSsaEdges(instrs, ip, ssas) == <<>>

RECURSIVE SsaEdges(_, _, _)
\* One edge for each SSA value of the list ssas that an earlier instruction
\* of the slice defines.
SsaEdges(instrs, ip, ssas) ==
  IF ssas = <<>> THEN <<>>
  ELSE LET d == DefSite(instrs, ip, Head(ssas))
           rest == SsaEdges(instrs, ip, Tail(ssas))
       IN IF d = <<>> THEN rest
          ELSE << [tail |-> d[1], head |-> ip,
                   latency |-> SrcEdgeLatency(instrs[d[1]])] >> \o rest

\* A dependency graph without the edge for the predicate guard.
NoPredEdges(instrs, ip) == <<>>

PredEdges(instrs, ip) ==
  LET p == Pool[instrs[ip]].pred
  IN IF p = <<>> THEN <<>>
     ELSE LET d == DefSite(instrs, ip, p[1])
          IN IF d = <<>> THEN <<>>
             ELSE << [tail |-> d[1], head |-> ip,
                      latency |-> PredEdgeLatency(instrs[d[1]])] >>

RECURSIVE DepEdges(_, _)
\* The edges generate_dep_graph adds, in the order it adds them, from
\* instruction ip on.
DepEdges(instrs, ip) ==
  IF ip > Len(instrs) THEN <<>>
  ELSE MemoryEdges(instrs, ip)
         \o SsaEdges(instrs, ip, Flatten(Pool[instrs[ip]].srcs))
         \o PredEdges(instrs, ip)
         \o DepEdges(instrs, ip + 1)

generate_dep_graph(instrs) == DepEdges(instrs, 1)

RECURSIVE SelectSeq2(_, _, _)
\* The subsequence of the edges whose field fld is n.
SelectSeq2(edges, fld, n) ==
  IF edges = <<>> THEN <<>>
  ELSE IF Head(edges)[fld] = n
       THEN <<Head(edges)>> \o SelectSeq2(Tail(edges), fld, n)
       ELSE SelectSeq2(Tail(edges), fld, n)

\* DepGraph::reverse on the edges that lead to one node: each now leads from
\* it to the node it came from.
ReverseEdges(es) ==
  [k \in DOMAIN es |-> [head_idx |-> es[k].tail, latency |-> es[k].latency]]

RECURSIVE CyclesToEnd(_, _)
\* NodeLabel::cycles_to_end as calc_statistics sets it: the longest latency
\* path from node i to a node without dependents.
CyclesToEnd(edges, i) ==
  LET out == SelectSeq2(edges, "tail", i)
      ds == {CyclesToEnd(edges, out[k].head) + out[k].latency : k \in DOMAIN out}
  IN IF ds = {} THEN 0 ELSE CHOOSE d \in ds : \A x \in ds : x <= d

\* calc_statistics followed by DepGraph::reverse: the node labels, and per
\* node the reversed outgoing edges (to the producers of what it reads).
InitGraph(instrs) ==
  LET edges == generate_dep_graph(instrs)
  IN [i \in 1..Len(instrs) |->
        [cycles_to_end |-> CyclesToEnd(edges, i),
         num_uses |-> Len(SelectSeq2(edges, "tail", i)),
         ready_cycle |-> 0,
         outgoing_edges |-> ReverseEdges(SelectSeq2(edges, "head", i))]]

\* calc_statistics' initial ready list: the nodes nothing depends on.
InitReadyList(g) == {i \in DOMAIN g : g[i].num_uses = 0}

\* The order of ReadyInstr: cycles_to_end, then the index.
ReadyLess(g, i, j) ==
  \/ g[i].cycles_to_end < g[j].cycles_to_end
  \/ g[i].cycles_to_end = g[j].cycles_to_end /\ i < j

\* The order of FutureReadyInstr (ready_cycle: Reverse<u32>, index): the
\* smaller ready_cycle is the greater.  A future-ready entry is
\* [ready_cycle, index].
FutureLess(a, b) ==
  \/ a.ready_cycle > b.ready_cycle
  \/ a.ready_cycle = b.ready_cycle /\ a.index < b.index

\* -------------------------------------------------------------- NetLive

\* A use set that also records the values that are live out of the unit.
UseSet_with_live_out(instrs, live_out, i) == SrcUses(instrs[i])

\* The use set of instruction i: its source values that are not live-out.
UseSet(instrs, live_out, i) == SrcUses(instrs[i]) \ live_out

\* ssa_to_instr after NetLive::new: the instructions that use each tracked
\* value (an SSA value without users has no entry, here the empty set).
InitSsaToInstr(instrs, live_out) ==
  [s \in UNION {UseSet(instrs, live_out, i) : i \in DOMAIN instrs} |->
     {i \in DOMAIN instrs : s \in UseSet(instrs, live_out, i)}]

\* The destinations of an instruction as a list of [ssa, is_vector].
DstList(id) ==
  LET d == Pool[id].dsts
      one(k) == [j \in 1..Len(d[k]) |-> [ssa |-> d[k][j], is_vector |-> Len(d[k]) > 1]]
  IN IF Len(d) = 0 THEN <<>>
     ELSE IF Len(d) = 1 THEN one(1)
     ELSE IF Len(d) = 2 THEN one(1) \o one(2)
     ELSE one(1) \o one(2) \o one(3)

\* Counts whose peak2 is lowered by every killed definition as well.
InitCounts_killed_peak2(instrs, live_out) ==
  LET tracked == DOMAIN InitSsaToInstr(instrs, live_out)
      cnt(i) ==
        LET use == UseSet(instrs, live_out, i)
            dl == DstList(instrs[i])
            killed(f) == Cardinality({k \in DOMAIN dl :
                            /\ FileOf(dl[k].ssa) = f
                            /\ (dl[k].ssa \in tracked \/ dl[k].ssa \in live_out)})
            dead(f) == Cardinality({k \in DOMAIN dl :
                            /\ FileOf(dl[k].ssa) = f
                            /\ ~(dl[k].ssa \in tracked \/ dl[k].ssa \in live_out)})
            scalar(f) == Cardinality({k \in DOMAIN dl :
                            FileOf(dl[k].ssa) = f /\ ~dl[k].is_vector})
        IN [net |-> [f \in RegFiles |-> Count(use, f) - killed(f)],
            peak1 |-> [f \in RegFiles |-> dead(f)],
            peak2 |-> [f \in RegFiles |->
                         Count(use, f) - killed(f) + dead(f) - scalar(f)]]
  IN [i \in DOMAIN instrs |-> cnt(i)]

\* NetLive::new: the InstrCount of every instruction.
InitCounts(instrs, live_out) ==
  LET tracked == DOMAIN InitSsaToInstr(instrs, live_out)
      cnt(i) ==
        LET use == UseSet(instrs, live_out, i)
            dl == DstList(instrs[i])
            killed(f) == Cardinality({k \in DOMAIN dl :
                            /\ FileOf(dl[k].ssa) = f
                            /\ (dl[k].ssa \in tracked \/ dl[k].ssa \in live_out)})
            dead(f) == Cardinality({k \in DOMAIN dl :
                            /\ FileOf(dl[k].ssa) = f
                            /\ ~(dl[k].ssa \in tracked \/ dl[k].ssa \in live_out)})
            scalar(f) == Cardinality({k \in DOMAIN dl :
                            FileOf(dl[k].ssa) = f /\ ~dl[k].is_vector})
        IN [net |-> [f \in RegFiles |-> Count(use, f) - killed(f)],
            peak1 |-> [f \in RegFiles |-> dead(f)],
            peak2 |-> [f \in RegFiles |-> Count(use, f) + dead(f) - scalar(f)]]
  IN [i \in DOMAIN instrs |-> cnt(i)]

\* A remove that leaves the counts of the other users as they were.
RemoveCounts_stale(counts, ssa_to_instr, ssa) == counts

\* NetLive::remove on the counts: every user of ssa has one value less to
\* bring live.
RemoveCounts(counts, ssa_to_instr, ssa) ==
  IF ssa \in DOMAIN ssa_to_instr
  THEN [i \in DOMAIN counts |->
          IF i \in ssa_to_instr[ssa]
          THEN [counts[i] EXCEPT !.net[FileOf(ssa)] = @ - 1,
                                 !.peak2[FileOf(ssa)] = @ - 1]
          ELSE counts[i]]
  ELSE counts

\* NetLive::remove on the map: the value is forgotten.
RemoveSsa(ssa_to_instr, ssa) ==
  [s \in DOMAIN ssa_to_instr \ {ssa} |-> ssa_to_instr[s]]

\* ---------------------------------------------------------------- inputs

\* Instruction id may follow the sequence p: it is not yet in it, what it
\* reads (sources and guard) is defined by p and what it defines is not (the
\* IR is in SSA form).
MayFollow(p, id) ==
  /\ id \notin Range(p)
  /\ Uses(id) \subseteq UNION {Defs(p[k]) : k \in DOMAIN p}
  /\ Defs(id) \cap UNION {Defs(p[k]) : k \in DOMAIN p} = {}

RECURSIVE ProgramsOfLen(_)
ProgramsOfLen(n) ==
  IF n = 0 THEN {<<>>}
  ELSE {Append(x[1], x[2]) :
          x \in {y \in ProgramsOfLen(n - 1) \X DOMAIN Pool : MayFollow(y[1], y[2])}}

Programs == UNION {ProgramsOfLen(n) : n \in 1..MaxInstrs}

\* The input functions: one block, or two blocks that fall through, one of
\* which may hold no instruction.
Functions ==
  {<<p>> : p \in Programs}
    \cup {<<SubSeq(x[1], 1, x[2]), SubSeq(x[1], x[2] + 1, Len(x[1]))>> :
            x \in {y \in Programs \X (0..MaxInstrs) : y[2] <= Len(y[1])}}

\* The register budgets the function is called with: max_regs[GPR] is small
\* enough for the inputs to reach it, the other files are as on SM75.
MaxRegsChoices ==
  {[f \in RegFiles |->
      CASE f = "GPR" -> gpr
        [] f = "UGPR" -> 63
        [] f = "Pred" -> 7
        [] f = "UPred" -> 7
        [] f = "Carry" -> 0
        [] f = "Bar" -> 16
        [] OTHER -> 1024] : gpr \in {2, 6}}

\* sm.hw_reserved_gprs()
HwReservedChoices == {2}

\* ----------------------------------------------------------------- state

VARIABLES
  orig,             \* the function's blocks on entry (lists of instruction ids)
  max_regs,         \* the max_regs argument
  hw_reserved,      \* sm.hw_reserved_gprs()
  blocks,           \* the function's blocks (block.instrs)
  pc,               \* where opt_instr_sched_prepass is
  err,              \* the assertion or unwrap that aborted the run, or "none"
  bi,               \* first pass: block_idx
  ip,               \* first pass: position in the block
  live_set,         \* first pass: live_set
  live_out_sets,    \* first pass: live_out_sets
  min_gpr_target,
  max_gpr_target,
  units,            \* schedule_units.0
  schedule_types,   \* the working list, reversed: the current type is last
  ui,               \* second and third pass: the unit at hand
  schedule_type,    \* third pass: the final schedule type
  gen,              \* the running sched_buffer / generate_order call (history:
                    \* regimes, the selection regimes its iterations have
                    \* used; emit_cycle, the cycle each entry of instr_order
                    \* was scheduled at; jumped, the instructions taken from
                    \* the future-ready list)
  attempts,         \* history: every finished ScheduleUnit::schedule call
                    \* (its unit, type, caller, result and order; for a
                    \* call that failed, the regime of the iteration that
                    \* quit and the candidates that were within
                    \* quit_threshold then)
  call              \* a pure function called on its own: its name, its
                    \* arguments and, once it has returned, its result

vars == <<orig, max_regs, hw_reserved, blocks, pc, err, bi, ip, live_set,
          live_out_sets, min_gpr_target, max_gpr_target, units, schedule_types,
          ui, schedule_type, gen, attempts, call>>

NoGen == [active |-> FALSE]

NoCall == [fn |-> "none", done |-> FALSE]

Init ==
  /\ orig \in Functions
  /\ max_regs \in MaxRegsChoices
  /\ hw_reserved \in HwReservedChoices
  /\ blocks = orig
  /\ pc = "pass1"
  /\ err = "none"
  /\ bi = 1
  /\ ip = 1
  /\ live_set = {}
  /\ live_out_sets = <<>>
  /\ min_gpr_target = 1
  /\ max_gpr_target = 1
  /\ units = <<>>
  /\ schedule_types = <<>>
  /\ ui = 0
  /\ schedule_type = NoType
  /\ gen = NoGen
  /\ attempts = <<>>
  /\ call = NoCall

\* A driver that reads the front of its working list.
First(sq) == sq[1]

Last(sq) == sq[Len(sq)]

Front(sq) == SubSeq(sq, 1, Len(sq) - 1)

Reverse(sq) == [k \in 1..Len(sq) |-> sq[Len(sq) + 1 - k]]

\* ------------------------------------------------------------ first pass

\* A first pass that lets every instruction be reordered.
AlwaysReorder(id) == TRUE

\* The can_reorder flag of the first pass: None and Memory instructions may
\* be reordered, a Barrier may not.
CanReorder(id) ==
  CASE side_effect_type(id) \in {"None", "Memory"} -> TRUE
    [] side_effect_type(id) = "Barrier" -> FALSE

\* ScheduleUnits::push_instr, LiveSet::insert_instr_top_down,
\* update_gpr_count and the gpr targets, for instruction ip of block bi.
PushInstr ==
  /\ pc = "pass1"
  /\ ip <= Len(orig[bi])
  /\ LET id == orig[bi][ip]
         can_reorder == CanReorder(id)
         n == Len(units)
         current_usable ==
           n > 0 /\ units[n].block_idx = bi /\ units[n].can_reorder = can_reorder
         closes == ~current_usable /\ n > 0 /\ units[n].can_reorder
                     /\ ~units[n].has_live_out
         closed == IF closes
                   THEN [units EXCEPT ![n].live_out = live_set,
                                      ![n].has_live_out = TRUE]
                   ELSE units
         new_unit == [block_idx |-> bi,
                      can_reorder |-> can_reorder,
                      live_in_count |-> Counts(live_set),
                      live_out |-> {},
                      has_live_out |-> FALSE,
                      instrs |-> <<>>,
                      new_order |-> <<>>,
                      has_order |-> FALSE,
                      last_tried_schedule_type |-> NoType,
                      peak_gpr_count |-> calc_used_gprs(Counts(live_set), max_regs)]
         pushed == IF current_usable THEN units ELSE Append(closed, new_unit)
         m == Len(pushed)
         r == insert_instr_top_down(live_set, orig, bi, ip)
         used_gprs == calc_used_gprs(r.counts, max_regs)
     IN IF closes /\ units[n].block_idx # bi
        THEN /\ pc' = "panic"
             /\ err' = "push_instr: assert_eq!(last.block_idx, block_idx)"
             /\ UNCHANGED <<blocks, ip, live_set, units, min_gpr_target, max_gpr_target>>
        ELSE /\ units' = [pushed EXCEPT ![m].instrs = Append(@, id),
                                        ![m].peak_gpr_count = Max(@, used_gprs)]
             /\ blocks' = [blocks EXCEPT ![bi] = <<>>]
             /\ live_set' = r.live
             /\ max_gpr_target' = Max(max_gpr_target, used_gprs)
             /\ min_gpr_target' = IF can_reorder THEN min_gpr_target
                                  ELSE Max(min_gpr_target, used_gprs)
             /\ ip' = ip + 1
             /\ UNCHANGED <<pc, err>>
  /\ UNCHANGED <<call, orig, max_regs, hw_reserved, bi, live_out_sets, schedule_types,
                 ui, schedule_type, gen, attempts>>

\* ScheduleUnits::finish_block and the end of the block's iteration; after
\* the last block, get_schedule_types and the reversal of its list.
FinishBlock ==
  /\ pc = "pass1"
  /\ ip > Len(orig[bi])
  /\ LET n == Len(units)
     IN IF n = 0
        THEN /\ pc' = "panic"
             /\ err' = "finish_block: unwrap on no unit"
             /\ UNCHANGED <<bi, ip, live_set, live_out_sets, units, schedule_types, ui>>
        ELSE IF units[n].can_reorder /\ units[n].has_live_out
        THEN /\ pc' = "panic"
             /\ err' = "finish_block: assert!(last.live_out.is_none())"
             /\ UNCHANGED <<bi, ip, live_set, live_out_sets, units, schedule_types, ui>>
        ELSE IF units[n].can_reorder /\ units[n].block_idx # bi
        THEN /\ pc' = "panic"
             /\ err' = "finish_block: assert_eq!(last.block_idx, block_idx)"
             /\ UNCHANGED <<bi, ip, live_set, live_out_sets, units, schedule_types, ui>>
        ELSE /\ units' = IF units[n].can_reorder
                         THEN [units EXCEPT ![n].live_out = live_set,
                                            ![n].has_live_out = TRUE]
                         ELSE units
             /\ live_out_sets' = Append(live_out_sets, live_set)
             /\ err' = err
             /\ IF bi < Len(orig)
                THEN /\ bi' = bi + 1
                     /\ ip' = 1
                     /\ live_set' = BlockStartLive(orig, bi + 1, live_set)
                     /\ UNCHANGED <<pc, schedule_types, ui>>
                ELSE /\ pc' = "pass2"
                     /\ schedule_types' =
                          Reverse(get_schedule_types(max_regs, min_gpr_target,
                                    max_gpr_target, SW_RESERVED_GPRS + hw_reserved))
                     /\ ui' = 1
                     /\ UNCHANGED <<bi, ip, live_set>>
  /\ UNCHANGED <<call, orig, max_regs, hw_reserved, blocks, min_gpr_target,
                 max_gpr_target, schedule_type, gen, attempts>>

\* ------------------------------------------- ScheduleUnit::schedule (entry)

\* ScheduleUnit::schedule up to the loop of generate_order: the type is
\* recorded, sched_buffer builds the graph (generate_dep_graph,
\* calc_statistics, reverse) and GenerateOrder::new the liveness state.
StartSchedule(u, ty, caller) ==
  IF ~units[u].has_live_out
  THEN /\ pc' = "panic"
       /\ err' = "schedule: live_out unwrap on None"
       /\ UNCHANGED <<units, gen>>
  ELSE LET g == InitGraph(units[u].instrs)
       IN /\ units' = [units EXCEPT ![u].last_tried_schedule_type = ty]
          /\ gen' = [active |-> TRUE,
                     caller |-> caller,
                     unit |-> u,
                     type |-> ty,
                     th |-> thresholds(ty, max_regs, units[u].peak_gpr_count),
                     g |-> g,
                     ready |-> InitReadyList(g),
                     future |-> {},
                     current_cycle |-> 0,
                     instr_order |-> <<>>,
                     emit_cycle |-> <<>>,
                     jumped |-> {},
                     regimes |-> {},
                     live |-> units[u].live_out,
                     counts |-> InitCounts(units[u].instrs, units[u].live_out),
                     ssa_to_instr |-> InitSsaToInstr(units[u].instrs, units[u].live_out)]
          /\ pc' = "gen"
          /\ err' = err

\* ---------------------------------------------------------- generate_order

\* A loop that moves every future-ready entry, whatever its ready_cycle.
DrainsAll == gen.future

\* A loop that never moves a future-ready entry to the ready list.
NothingDrainable == {}

\* The future-ready entries the loop moves to the ready list: it pops the
\* last entry (the smallest ready_cycle) while current_cycle >= ready_cycle.
Drainable == {e \in gen.future : gen.current_cycle >= e.ready_cycle}

ReadyAfterDrain == gen.ready \cup {e.index : e \in Drainable}

FutureAfterDrain == gen.future \ Drainable

\* GenerateOrder::current_used_gprs
current_used_gprs(live) == calc_used_gprs(Counts(live), max_regs)

\* GenerateOrder::new_used_regs
new_used_regs(live, net) == [f \in RegFiles |-> Count(live, f) + net[f]]

new_used_gprs_net(i) == calc_used_gprs(new_used_regs(gen.live, gen.counts[i].net), max_regs)

new_used_gprs_peak1(i) == calc_used_gprs(new_used_regs(gen.live, gen.counts[i].peak1), max_regs)

new_used_gprs_peak2(i) == calc_used_gprs(new_used_regs(gen.live, gen.counts[i].peak2), max_regs)

\* GenerateOrder::new_score
new_score(i, delay_cycles) ==
  calc_score(new_used_regs(gen.live, gen.counts[i].net),
             new_used_regs(gen.live, gen.counts[i].peak1),
             new_used_regs(gen.live, gen.counts[i].peak2),
             max_regs, delay_cycles, gen.th)

\* ready_instrs.pop_last(): the greatest ReadyInstr.
LastReady(ready) == CHOOSE i \in ready : \A j \in ready \ {i} : ReadyLess(gen.g, j, i)

\* future_ready_instrs.last(): the greatest FutureReadyInstr.
LastFuture(future) == CHOOSE e \in future : \A x \in future \ {e} : FutureLess(x, e)

\* The maximum of (score, ReadyInstr) over the ready list.
BestReady(ready) ==
  CHOOSE i \in ready : \A j \in ready \ {i} :
    \/ ScoreLess(new_score(j, 0), new_score(i, 0))
    \/ new_score(j, 0) = new_score(i, 0) /\ ReadyLess(gen.g, j, i)

FutureScore(e) == new_score(e.index, e.ready_cycle - gen.current_cycle)

\* The future-ready entries whose score is strictly greater than new_score.
BetterCandidates(future, best_score) ==
  {e \in future : ScoreLess(best_score, FutureScore(e))}

\* The maximum of (score, FutureReadyInstr) over the better candidates.
BestFuture(cands) ==
  CHOOSE e \in cands : \A x \in cands \ {e} :
    \/ ScoreLess(FutureScore(x), FutureScore(e))
    \/ FutureScore(x) = FutureScore(e) /\ FutureLess(x, e)

\* What an iteration picks: the index, the two lists without it, the cycle
\* the instruction is scheduled at, and where it came from.
PickReady(i, ready, future, regime) ==
  [index |-> i, ready |-> ready \ {i}, future |-> future,
   cycle |-> gen.current_cycle, regime |-> regime, from_future |-> FALSE]

\* The better candidate is taken out of the future-ready list and scheduled
\* at its ready_cycle.
PickFuture(e, ready, future) ==
  [index |-> e.index, ready |-> ready, future |-> future \ {e},
   cycle |-> e.ready_cycle, regime |-> "high", from_future |-> TRUE]

\* The high-pressure pick once the best ready instruction r and the better
\* candidates are known.
PickBetter(r, cands, ready, future) ==
  IF cands # {}
  THEN PickFuture(BestFuture(cands), ready, future)
  ELSE PickReady(r, ready, future, "high")

\* The high-pressure pick with r the best ready instruction.
PickHigh(r, ready, future) ==
  PickBetter(r, BetterCandidates(future, new_score(r, 0)), ready, future)

\* A pick that never schedules for pressure.
PickFrom_ilp(ready, future) == PickReady(LastReady(ready), ready, future, "low")

\* "Pick an instruction to schedule" on the lists left by the move.
PickFrom(ready, future) ==
  IF current_used_gprs(gen.live) <= gen.th.heuristic_threshold
  THEN PickReady(LastReady(ready), ready, future, "low")
  ELSE PickHigh(BestReady(ready), ready, future)

Pick == PickFrom(ReadyAfterDrain, FutureAfterDrain)

predicted_new_used_gprs_peak(i) == Max(new_used_gprs_peak1(i), new_used_gprs_peak2(i))

\* The instructions of the two lists whose predicted peak is within
\* quit_threshold.
Fitting ==
  {i \in ReadyAfterDrain \cup {e.index : e \in FutureAfterDrain} :
     predicted_new_used_gprs_peak(i) <= gen.th.quit_threshold}

RECURSIVE UpdateDeps(_, _, _, _)
\* The loop over the outgoing edges of the scheduled node: st is
\* [g, future].
UpdateDeps(st, edges, k, cycle) ==
  IF k > Len(edges) THEN st
  ELSE LET h == edges[k].head_idx
           rc == Max(st.g[h].ready_cycle, cycle + edges[k].latency)
           nu == st.g[h].num_uses - 1
           g1 == [st.g EXCEPT ![h].ready_cycle = rc, ![h].num_uses = nu]
       IN UpdateDeps([g |-> g1,
                      future |-> IF nu <= 0
                                 THEN st.future \cup {[ready_cycle |-> rc, index |-> h]}
                                 ELSE st.future],
                     edges, k + 1, cycle)

RECURSIVE UsesLive(_, _, _)
\* "uses are now live": st is [live, counts, ssa_to_instr, ok]; ok turns
\* false where debug_assert!(!self.live.insert(ssa)) fails (the insert of
\* that branch is part of the debug assertion).
UsesLive(st, ssas, k) ==
  IF k > Len(ssas) THEN st
  ELSE LET s == ssas[k]
       IN IF s \in DOMAIN st.ssa_to_instr
          THEN UsesLive([live |-> st.live \cup {s},
                         counts |-> RemoveCounts(st.counts, st.ssa_to_instr, s),
                         ssa_to_instr |-> RemoveSsa(st.ssa_to_instr, s),
                         ok |-> st.ok],
                        ssas, k + 1)
          ELSE UsesLive([st EXCEPT !.ok = st.ok /\ s \in st.live], ssas, k + 1)

\* How ScheduleUnit::schedule ends: control returns to the pass that called.
ReturnPc == IF gen.caller = "pass2" THEN "ret2" ELSE "apply"

\* One iteration that finds the ready list empty and fast-forwards to the
\* next ready_cycle.
GenFastForward ==
  /\ pc = "gen"
  /\ ReadyAfterDrain = {}
  /\ FutureAfterDrain # {}
  /\ LET rc == LastFuture(FutureAfterDrain).ready_cycle
     IN IF rc > gen.current_cycle
        THEN /\ gen' = [gen EXCEPT !.current_cycle = rc]
             /\ UNCHANGED <<pc, err>>
        ELSE /\ pc' = "panic"
             /\ err' = "generate_order: assert!(ready_cycle > current_cycle)"
             /\ gen' = gen
  /\ UNCHANGED <<call, orig, max_regs, hw_reserved, blocks, bi, ip, live_set,
                 live_out_sets, min_gpr_target, max_gpr_target, units,
                 schedule_types, ui, schedule_type, attempts>>

\* One iteration that picks an instruction whose predicted peak exceeds
\* quit_threshold: generate_order returns None, so do sched_buffer and
\* ScheduleUnit::schedule, and new_order stays as it was.
GenQuit ==
  /\ pc = "gen"
  /\ ReadyAfterDrain # {}
  /\ predicted_new_used_gprs_peak(Pick.index) > gen.th.quit_threshold
  /\ pc' = ReturnPc
  /\ attempts' = Append(attempts, [unit |-> gen.unit, type |-> gen.type,
                                   caller |-> gen.caller, ok |-> FALSE,
                                   regimes |-> gen.regimes, order |-> <<>>,
                                   quit_regime |-> Pick.regime,
                                   fitting |-> Fitting])
  /\ gen' = NoGen
  /\ UNCHANGED <<call, orig, max_regs, hw_reserved, blocks, err, bi, ip, live_set,
                 live_out_sets, min_gpr_target, max_gpr_target, units,
                 schedule_types, ui, schedule_type>>

\* The assertion that fails while the picked instruction is scheduled, or
\* "none".
EmitFailure(pk, predicted_net, lv) ==
  IF pk.from_future /\ ~(pk.cycle > gen.current_cycle)
  THEN "generate_order: assert!(ready_cycle > current_cycle)"
  ELSE IF ~lv.ok
  THEN "generate_order: debug_assert!(!self.live.insert(ssa))"
  ELSE IF current_used_gprs(lv.live) # predicted_net
  THEN "generate_order: debug_assert_eq!(current_used_gprs, predicted)"
  ELSE "none"

\* The state after the iteration: deps is what the loop over the outgoing
\* edges leaves, lv what the liveness update leaves, bad the failed assertion.
EmitState(pk, deps, lv, bad) ==
  /\ gen' = [gen EXCEPT !.g = [deps.g EXCEPT ![pk.index].outgoing_edges = <<>>],
                        !.ready = pk.ready,
                        !.future = deps.future,
                        !.current_cycle = pk.cycle + 1,
                        !.instr_order = Append(@, pk.index),
                        !.emit_cycle = Append(@, pk.cycle),
                        !.jumped = IF pk.from_future THEN @ \cup {pk.index} ELSE @,
                        !.regimes = @ \cup {pk.regime},
                        !.live = lv.live,
                        !.counts = lv.counts,
                        !.ssa_to_instr = lv.ssa_to_instr]
  /\ IF bad = "none"
     THEN UNCHANGED <<pc, err>>
     ELSE /\ err' = bad
          /\ pc' \in IF bad = "generate_order: assert!(ready_cycle > current_cycle)"
                     THEN {"panic"} ELSE {"panic", "gen"}

\* The liveness update for instruction id: its defs are killed, its uses
\* are now live.
EmitLive(pk, id, predicted_net, deps) ==
  LET lv == UsesLive([live |-> gen.live \ Defs(id), counts |-> gen.counts,
                      ssa_to_instr |-> gen.ssa_to_instr, ok |-> TRUE],
                     Flatten(Pool[id].srcs), 1)
  IN EmitState(pk, deps, lv, EmitFailure(pk, predicted_net, lv))

\* The body of the loop from the prediction on, for the pick pk.
Emit(pk) ==
  EmitLive(pk, units[gen.unit].instrs[pk.index], new_used_gprs_net(pk.index),
           UpdateDeps([g |-> gen.g, future |-> pk.future],
                      gen.g[pk.index].outgoing_edges, 1, pk.cycle))

\* One iteration that schedules the picked instruction.
GenEmit ==
  /\ pc = "gen"
  /\ ReadyAfterDrain # {}
  /\ predicted_new_used_gprs_peak(Pick.index) <= gen.th.quit_threshold
  /\ Emit(Pick)
  /\ UNCHANGED <<call, orig, max_regs, hw_reserved, blocks, bi, ip, live_set,
                 live_out_sets, min_gpr_target, max_gpr_target, units,
                 schedule_types, ui, schedule_type, attempts>>

\* The iteration that finds both lists empty: generate_order returns the
\* order and the live counts, sched_buffer checks the counts against
\* live_in_count and reverses the order, schedule stores it in new_order.
GenDone ==
  /\ pc = "gen"
  /\ ReadyAfterDrain = {}
  /\ FutureAfterDrain = {}
  /\ IF Counts(gen.live) = units[gen.unit].live_in_count
     THEN /\ units' = [units EXCEPT ![gen.unit].new_order = Reverse(gen.instr_order),
                                    ![gen.unit].has_order = TRUE]
          /\ pc' = ReturnPc
          /\ attempts' = Append(attempts, [unit |-> gen.unit, type |-> gen.type,
                                           caller |-> gen.caller, ok |-> TRUE,
                                           regimes |-> gen.regimes,
                                           order |-> Reverse(gen.instr_order),
                                           quit_regime |-> "none",
                                           fitting |-> {}])
          /\ gen' = NoGen
          /\ err' = err
     ELSE /\ pc' = "panic"
          /\ err' = "sched_buffer: assert_eq!(live_in_count2, live_in_count)"
          /\ UNCHANGED <<units, attempts, gen>>
  /\ UNCHANGED <<call, orig, max_regs, hw_reserved, blocks, bi, ip, live_set,
                 live_out_sets, min_gpr_target, max_gpr_target,
                 schedule_types, ui, schedule_type>>

\* ----------------------------------------------------------- second pass

\* The unit at hand cannot be reordered: continue.
Pass2Skip ==
  /\ pc = "pass2"
  /\ ui <= Len(units)
  /\ ~units[ui].can_reorder
  /\ ui' = ui + 1
  /\ UNCHANGED <<call, orig, max_regs, hw_reserved, blocks, pc, err, bi, ip, live_set,
                 live_out_sets, min_gpr_target, max_gpr_target, units,
                 schedule_types, schedule_type, gen, attempts>>

\* The body of the inner loop up to u.schedule(...), with the current type.
Pass2Schedule ==
  /\ pc = "pass2"
  /\ ui <= Len(units)
  /\ units[ui].can_reorder
  /\ StartSchedule(ui, Last(schedule_types), "pass2")
  /\ UNCHANGED <<call, orig, max_regs, hw_reserved, blocks, bi, ip, live_set,
                 live_out_sets, min_gpr_target, max_gpr_target,
                 schedule_types, ui, schedule_type, attempts>>

\* The rest of the inner loop's body, after u.schedule(...) returned.
Pass2Result ==
  /\ pc = "ret2"
  /\ pc' = "pass2"
  /\ IF units[ui].has_order
     THEN ui' = ui + 1 /\ UNCHANGED schedule_types
     ELSE IF Len(schedule_types) > 1
          THEN schedule_types' = Front(schedule_types) /\ UNCHANGED ui
          ELSE ui' = ui + 1 /\ UNCHANGED schedule_types
  /\ UNCHANGED <<call, orig, max_regs, hw_reserved, blocks, err, bi, ip, live_set,
                 live_out_sets, min_gpr_target, max_gpr_target, units,
                 schedule_type, gen, attempts>>

\* The end of the second pass: the final schedule type is the last entry of
\* the working list.
Pass2End ==
  /\ pc = "pass2"
  /\ ui > Len(units)
  /\ pc' = "pass3"
  /\ schedule_type' = Last(schedule_types)
  /\ ui' = 1
  /\ UNCHANGED <<call, orig, max_regs, hw_reserved, blocks, err, bi, ip, live_set,
                 live_out_sets, min_gpr_target, max_gpr_target, units,
                 schedule_types, gen, attempts>>

\* ------------------------------------------------------------ third pass

\* A third pass that never schedules again.
NeedsReschedule_never(u) == FALSE

\* The condition of the third pass: the unit can be reordered and was last
\* tried under another type than the final one.
NeedsReschedule(u) ==
  units[u].can_reorder /\ units[u].last_tried_schedule_type # schedule_type

\* "If the global register limit has increased, then we can schedule again".
Pass3Reschedule ==
  /\ pc = "pass3"
  /\ ui <= Len(units)
  /\ NeedsReschedule(ui)
  /\ StartSchedule(ui, schedule_type, "pass3")
  /\ UNCHANGED <<call, orig, max_regs, hw_reserved, blocks, bi, ip, live_set,
                 live_out_sets, min_gpr_target, max_gpr_target,
                 schedule_types, ui, schedule_type, attempts>>

\* A faulty write-back that takes the first scheduled instruction every time.
apply_first(order, instrs) == [k \in DOMAIN order |-> instrs[order[1]]]

\* InstructionOrder::apply: the instructions in the order of the indices.
apply(order, instrs) == [k \in DOMAIN order |-> instrs[order[k]]]

\* apply takes an instruction out of a slot it has emptied before.
ScheduledTwice(order) ==
  \E j, k \in DOMAIN order : j < k /\ order[j] = order[k]

\* The unit's instructions are written back to its block.
Pass3Apply ==
  /\ \/ pc = "apply"
     \/ pc = "pass3" /\ ui <= Len(units) /\ ~NeedsReschedule(ui)
  /\ LET u == units[ui]
     IN IF u.has_order /\ Len(u.new_order) # Len(u.instrs)
        THEN /\ pc' = "panic"
             /\ err' = "apply: assert_eq!(self.order.len(), instrs.len())"
             /\ UNCHANGED <<blocks, ui>>
        ELSE IF u.has_order /\ ScheduledTwice(u.new_order)
        THEN /\ pc' = "panic"
             /\ err' = "apply: Instruction scheduled twice"
             /\ UNCHANGED <<blocks, ui>>
        ELSE /\ blocks' = [blocks EXCEPT ![u.block_idx] =
                             @ \o (IF u.has_order THEN apply(u.new_order, u.instrs)
                                   ELSE u.instrs)]
             /\ ui' = ui + 1
             /\ pc' = "pass3"
             /\ err' = err
  /\ UNCHANGED <<call, orig, max_regs, hw_reserved, bi, ip, live_set, live_out_sets,
                 min_gpr_target, max_gpr_target, units, schedule_types,
                 schedule_type, gen, attempts>>

\* The instruction counts differ from the original ones.
CountsDiffer == \E b \in DOMAIN orig : Len(blocks[b]) # Len(orig[b])

\* SimpleLiveness finds more live GPRs than the final RegLimit allows.
MaxLiveExceedsLimit ==
  /\ schedule_type.kind = "RegLimit"
  /\ calc_max_live(blocks)["GPR"] > schedule_type.g

\* The end of the function: the two debug assertions, which a build without
\* debug assertions does not evaluate.
Pass3End ==
  /\ pc = "pass3"
  /\ ui > Len(units)
  /\ err' = IF CountsDiffer
            THEN "debug_assert_eq!(orig_instr_counts, ...)"
            ELSE IF MaxLiveExceedsLimit
            THEN "debug_assert!(max_live[GPR] <= limit)"
            ELSE err
  /\ pc' \in IF CountsDiffer \/ MaxLiveExceedsLimit THEN {"panic", "done"} ELSE {"done"}
  /\ UNCHANGED <<call, orig, max_regs, hw_reserved, blocks, bi, ip, live_set,
                 live_out_sets, min_gpr_target, max_gpr_target, units,
                 schedule_types, ui, schedule_type, gen, attempts>>

Next ==
  \/ PushInstr
  \/ FinishBlock
  \/ Pass2Skip
  \/ Pass2Schedule
  \/ Pass2Result
  \/ Pass2End
  \/ GenFastForward
  \/ GenQuit
  \/ GenEmit
  \/ GenDone
  \/ Pass3Reschedule
  \/ Pass3Apply
  \/ Pass3End

Spec == Init /\ [][Next]_vars

\* ------------------------------------- the scheduler's pure functions
\* The functions of the scheduler that depend on their arguments only, each
\* called on its own: call holds the function's name and arguments, and the
\* result once the function has returned.

MaxCliffArg == 255
MaxDelay == 3

\* The driver at rest while a function is called on its own.
Idle ==
  /\ orig = <<>>
  /\ max_regs = ZeroCount
  /\ hw_reserved = 0
  /\ blocks = <<>>
  /\ pc = "call"
  /\ err = "none"
  /\ bi = 0
  /\ ip = 0
  /\ live_set = {}
  /\ live_out_sets = <<>>
  /\ min_gpr_target = 0
  /\ max_gpr_target = 0
  /\ units = <<>>
  /\ schedule_types = <<>>
  /\ ui = 0
  /\ schedule_type = NoType
  /\ gen = NoGen
  /\ attempts = <<>>

idle_vars == <<orig, max_regs, hw_reserved, blocks, pc, err, bi, ip, live_set,
               live_out_sets, min_gpr_target, max_gpr_target, units,
               schedule_types, ui, schedule_type, gen, attempts>>

\* sm.num_regs(f) for every file, with the given number of GPRs.
NumRegs(gpr) ==
  [f \in RegFiles |->
     CASE f = "GPR" -> gpr
       [] f = "UGPR" -> 63
       [] f = "Pred" -> 7
       [] f = "UPred" -> 7
       [] f = "Carry" -> 0
       [] f = "Bar" -> 16
       [] OTHER -> 1024]

\* A PerRegFile<i32> of live-count changes.
CountOf(g, p, b) == [ZeroCount EXCEPT !["GPR"] = g, !["Pred"] = p, !["Bar"] = b]

Pending == <<>>

CallOf(f, a) == [fn |-> f, args |-> a, done |-> FALSE, result |-> Pending]

CliffCalls ==
  {CallOf("next_occupancy_cliff", [x |-> x]) : x \in 0..MaxCliffArg}

ScoreCalls ==
  {CallOf("calc_score",
          [net |-> CountOf(c[1], c[2], 0), peak1 |-> CountOf(c[3], 0, 0),
           peak2 |-> CountOf(c[4], c[2], c[5]), max_regs |-> NumRegs(c[6]),
           th |-> [heuristic_threshold |-> c[7] - TARGET_FREE, quit_threshold |-> c[7]],
           d1 |-> c[8], d2 |-> c[9]]) :
     c \in {x \in {-2, 0, 3, 7} \X {0, 8} \X {0, 5} \X {1, 6} \X {0, 17} \X {2, 6}
                   \X {4, 6} \X (0..MaxDelay) \X (0..MaxDelay) : x[8] <= x[9]}}

TypesCalls ==
  {CallOf("get_schedule_types",
          [max_regs |-> NumRegs(c[1]), min_gpr_target |-> c[2],
           max_gpr_target |-> c[3], reserved_gprs |-> c[4]]) :
     c \in {x \in {6, 36, 37, 60, 100, 251} \X {1, 30, 40} \X {1, 37, 50, 61, 252}
                   \X {2, 4} : x[2] <= x[3]}}

ShaderCalls ==
  {CallOf("Shader::opt_instr_sched_prepass",
          [num_regs |-> NumRegs(c[1]), stage |-> c[2], gpr_limit |-> c[3],
           hw_reserved_gprs |-> c[4], functions |-> c[5]]) :
     c \in {64, 253} \X {"Compute", "Vertex", "Fragment"} \X {32, 64, 128, 255}
            \X {0, 2} \X {1, 3}}

\* A shader whose budget is not reduced by the software-reserved GPRs.
shader_max_regs_unreserved(num_regs, stage, gpr_limit, hw_reserved_gprs) ==
  IF stage = "Compute"
  THEN [num_regs EXCEPT !["GPR"] = Min(@, gpr_limit - hw_reserved_gprs)]
  ELSE num_regs

\* Shader::opt_instr_sched_prepass: the max_regs it computes.
shader_max_regs(num_regs, stage, gpr_limit, hw_reserved_gprs) ==
  LET max_regs0 == [f \in RegFiles |-> num_regs[f]]
      max_regs1 == IF stage = "Compute"
                   THEN [max_regs0 EXCEPT
                           !["GPR"] = Min(@, gpr_limit - hw_reserved_gprs)]
                   ELSE max_regs0
  IN [max_regs1 EXCEPT !["GPR"] = @ - SW_RESERVED_GPRS]

\* Shader::opt_instr_sched_prepass: the max_regs argument of the call of
\* Function::opt_instr_sched_prepass on each function, in order.
shader_opt_instr_sched_prepass(a) ==
  [f \in 1..a.functions |->
     shader_max_regs(a.num_regs, a.stage, a.gpr_limit, a.hw_reserved_gprs)]

\* The largest amount one component of the counts is raised by.
MaxBump == 2

\* Counts of live values around the sizes of the files, and the same counts
\* with one component raised.
UsedGprsCalls ==
  {CallOf("calc_used_gprs",
          [p |-> [ZeroCount EXCEPT !["Bar"] = c[1], !["Pred"] = c[2], !["UPred"] = c[3],
                                   !["UGPR"] = c[4], !["GPR"] = c[5]],
           f |-> c[6], bump |-> c[7], max_regs |-> NumRegs(c[8])]) :
     c \in {0, 16, 17} \X {0, 7, 9} \X {0, 7, 8, 9} \X {0, 62, 63, 64} \X {0, 5}
            \X {"Bar", "Pred", "UPred", "UGPR", "GPR"} \X (1..MaxBump) \X {6}}

\* A candidate of the selection step: its counts and its delay.
Candidates ==
  {[net |-> CountOf(c[1], c[2], 0), peak1 |-> ZeroCount,
    peak2 |-> CountOf(c[3], 0, 0), delay |-> c[4]] :
     c \in {0, 3, 7} \X {0, 8} \X {1, 7} \X (0..MaxDelay)}

\* Two candidates scored under the same budget and thresholds.
CompareCalls ==
  {CallOf("calc_score_cmp",
          [a |-> c[1], b |-> c[2], max_regs |-> NumRegs(6),
           th |-> [heuristic_threshold |-> 6 - TARGET_FREE, quit_threshold |-> 6]]) :
     c \in Candidates \X Candidates}

PureInit ==
  /\ Idle
  /\ call \in CliffCalls \cup ScoreCalls \cup TypesCalls \cup ShaderCalls
              \cup UsedGprsCalls \cup CompareCalls

Return(r) ==
  /\ ~call.done
  /\ call' = [call EXCEPT !.done = TRUE, !.result = r]
  /\ UNCHANGED idle_vars

CallNextOccupancyCliff ==
  /\ call.fn = "next_occupancy_cliff"
  /\ Return(next_occupancy_cliff(call.args.x))

\* calc_score on the same instruction at two delays, d1 <= d2.
CallCalcScore ==
  /\ call.fn = "calc_score"
  /\ Return(<<calc_score(call.args.net, call.args.peak1, call.args.peak2,
                         call.args.max_regs, call.args.d1, call.args.th),
              calc_score(call.args.net, call.args.peak1, call.args.peak2,
                         call.args.max_regs, call.args.d2, call.args.th)>>)

CallGetScheduleTypes ==
  /\ call.fn = "get_schedule_types"
  /\ Return(get_schedule_types(call.args.max_regs, call.args.min_gpr_target,
                               call.args.max_gpr_target, call.args.reserved_gprs))

CallShaderPrepass ==
  /\ call.fn = "Shader::opt_instr_sched_prepass"
  /\ Return(shader_opt_instr_sched_prepass(call.args))

\* calc_used_gprs on the counts p, and on p with the component f raised.
CallCalcUsedGprs ==
  /\ call.fn = "calc_used_gprs"
  /\ Return(<<calc_used_gprs(call.args.p, call.args.max_regs),
              calc_used_gprs([call.args.p EXCEPT ![call.args.f] = @ + call.args.bump],
                             call.args.max_regs)>>)

\* calc_score on two candidates, and the comparison of the two scores that
\* the selection step makes.
CallCompareScores ==
  /\ call.fn = "calc_score_cmp"
  /\ LET sa == calc_score(call.args.a.net, call.args.a.peak1, call.args.a.peak2,
                          call.args.max_regs, call.args.a.delay, call.args.th)
         sb == calc_score(call.args.b.net, call.args.b.peak1, call.args.b.peak2,
                          call.args.max_regs, call.args.b.delay, call.args.th)
     IN Return([a |-> sa, b |-> sb, less |-> ScoreLess(sa, sb)])

PureNext ==
  \/ CallNextOccupancyCliff
  \/ CallCalcScore
  \/ CallGetScheduleTypes
  \/ CallShaderPrepass
  \/ CallCalcUsedGprs
  \/ CallCompareScores

SpecPure == PureInit /\ [][PureNext]_vars

\* ------------------------------------------------- the SM75 latency oracle
\* sm75_instr_latencies.rs.  A latency class is the name of its enum
\* variant.  What a table or an entry point gives is either a number of
\* cycles or a panic.

Cycles(n) == [abort |-> FALSE, cycles |-> n, msg |-> ""]

Panic(m) == [abort |-> TRUE, cycles |-> 0, msg |-> m]

\* The pred! macro.
pred(has_pred, b, p) == IF has_pred THEN b + p ELSE p

\* enum RegLatencySM75
RegLatencySM75 ==
  {"CoupledDisp64", "CoupledDisp", "CoupledAlu", "CoupledFMA", "IMADLo", "IMADWideAB",
   "IMADWideLower", "IMADWideUpper", "RedirectedFP64", "RedirectedFP16",
   "RedirectedHMMA_884_F16", "RedirectedHMMA_884_F32", "RedirectedHMMA_1688",
   "RedirectedHMMA_16816", "IMMA", "Decoupled", "DecoupledOther", "BMov",
   "GuardPredicate"}

\* enum URegLatencySM75
URegLatencySM75 ==
  {"Udp", "VectorCoupled", "VectorDecoupled", "Uldc", "Umov", "VectorCoupledBindless",
   "VectorDecoupledBindless", "VoteU", "GuardPredicate", "R2UR"}

\* A destination: Dst::None, Dst::SSA of a file or Dst::Reg of a file with a
\* number of components.
DstNone == [kind |-> "None", file |-> "None", comps |-> 0]

DstSSA(file) == [kind |-> "SSA", file |-> file, comps |-> 1]

DstReg(file, comps) == [kind |-> "Reg", file |-> file, comps |-> comps]

\* An Op as the oracle sees it: its variant, its destinations, the number of
\* its sources, whether it is a uniform op (is_uniform) and which of its
\* sources are bindless cbufs (is_bindless_cbuf).
OpOf(op, dsts, srcs, uniform, bindless) ==
  [op |-> op, dsts |-> dsts, srcs |-> srcs, uniform |-> uniform, bindless |-> bindless]

\* The category of an op the tables have no class for.
NoCategory == "panic"

\* A classifier that gives IMad64 and R2UR one class in both roles and
\* every other op the class of a decoupled one.
op_category_one_role(op, reader, op_reg_idx) ==
  IF op.op = "IMad64" THEN "IMADWideUpper" ELSE "Decoupled"

\* RegLatencySM75::op_category
RegLatencySM75_op_category(op, reader, op_reg_idx) ==
  CASE op.op \in {"IMad", "IMul"} -> "IMADLo"
    [] op.op = "IMad64" ->
         IF reader
         THEN (CASE op_reg_idx \in {0, 1} -> "IMADWideAB"
                 [] op_reg_idx = 2 -> "IMADWideLower"
                 [] OTHER -> NoCategory)
         ELSE "IMADWideUpper"
    [] op.op \in {"IAdd3", "IAdd3X", "BMsk", "Lop3", "ISetP", "IAbs", "Lea", "LeaX",
                  "IMnMx", "I2I", "Shf", "FMnMx", "FSet", "FSetP", "Mov", "Sel",
                  "PLop3", "Prmt"} -> "CoupledAlu"
    [] op.op \in {"FFma", "FAdd", "FMul", "FSwzAdd", "IDp4"} -> "CoupledFMA"
    [] op.op \in {"DAdd", "DFma", "DMul", "DSetP", "DMnMx"} -> "RedirectedFP64"
    [] op.op \in {"HAdd2", "HFma2", "HMul2", "HSet2", "HSetP2", "HMnMx2"} ->
         "RedirectedFP16"
    [] op.op \in {"PopC", "Flo", "Ipa", "MuFu", "F2F", "F2I", "I2F", "FRnd", "AL2P",
                  "BRev", "S2R", "Bar", "BClear", "Bra", "BSSy", "Kill", "Exit",
                  "BSync", "Tex", "Tld", "Tld4", "Tmml", "Txd", "Txq", "Ldc", "ALd",
                  "ASt", "Out", "OutFinal", "Ld", "St", "Atom", "MemBar", "SuLd",
                  "SuSt", "SuAtom", "PixLd", "Isberd", "LdTram", "Shfl"} -> "Decoupled"
    [] op.op \in {"Nop", "Vote"} -> "CoupledDisp"
    [] op.op = "R2UR" -> IF reader THEN "Decoupled" ELSE NoCategory
    [] op.op = "CS2R" ->
         IF op.dsts[1].kind # "Reg" THEN NoCategory
         ELSE IF op.dsts[1].comps = 2 THEN "CoupledDisp64" ELSE "CoupledAlu"
    [] op.op = "BMov" ->
         IF op.dsts[1].kind = "Reg" /\ op.dsts[1].file = "GPR" THEN "BMov"
         ELSE "Decoupled"
    [] op.op = "CCtl" -> "DecoupledOther"
    [] OTHER -> NoCategory

\* URegLatencySM75::op_category
URegLatencySM75_op_category(op, reader, op_reg_idx) ==
  LET bindless == reader /\ op_reg_idx \in op.bindless
      vcoupled == IF op.uniform THEN "Udp"
                  ELSE IF bindless THEN "VectorCoupledBindless" ELSE "VectorCoupled"
      vdecoupled == IF op.uniform THEN "Udp"
                    ELSE IF bindless THEN "VectorDecoupledBindless"
                    ELSE "VectorDecoupled"
  IN IF reader /\ op_reg_idx >= op.srcs THEN NoCategory
     ELSE CASE op.op \in {"BMsk", "BRev", "IAdd3", "IAdd3X", "IAbs", "IMnMx", "IMad",
                          "IMad64", "ISetP", "Lea", "LeaX", "Lop2", "Lop3", "PLop3",
                          "Prmt", "PSetP", "Sel", "Shf", "FAdd", "FMul", "FFma",
                          "FSetP", "FMnMx", "HAdd2", "HMul2", "HSet2", "HFma2",
                          "HSetP2"} -> vcoupled
            [] op.op \in {"Flo", "MuFu", "PopC", "Shfl", "I2F", "F2I", "F2F", "FRnd",
                          "DMul", "DFma", "DAdd", "DSetP"} -> vdecoupled
            [] op.op = "Ldc" -> IF op.uniform THEN "Uldc" ELSE vdecoupled
            [] op.op = "Mov" -> IF op.uniform THEN "Umov" ELSE vcoupled
            [] op.op = "R2UR" -> IF ~reader THEN "R2UR" ELSE NoCategory
            [] op.op = "Vote" -> "VoteU"
            [] OTHER -> NoCategory

\* A read-after-write table with the ALU latency in every entry.
read_after_write_flat(writer, reader) == Cycles(4)

\* RegLatencySM75::read_after_write
RegLatencySM75_read_after_write(writer, reader) ==
  IF writer \in {"IMADWideAB", "DecoupledOther"}
  THEN Panic("Illegal IMADWideAB for writer")
  ELSE CASE reader \in {"CoupledDisp64", "CoupledDisp", "CoupledAlu"} ->
              (CASE writer = "CoupledDisp64" -> Cycles(6)
                [] writer \in {"CoupledAlu", "CoupledDisp"} -> Cycles(4)
                [] writer \in {"CoupledFMA", "IMADLo"} -> Cycles(5)
                [] writer = "IMADWideLower" -> Cycles(3)
                [] writer = "IMADWideUpper" -> Cycles(5)
                [] writer = "RedirectedFP64" -> Cycles(9)
                [] writer = "RedirectedFP16" -> Cycles(8)
                [] writer = "RedirectedHMMA_884_F16" -> Cycles(13)
                [] writer = "RedirectedHMMA_884_F32" -> Cycles(10)
                [] writer = "RedirectedHMMA_1688" -> Cycles(14)
                [] writer = "RedirectedHMMA_16816" -> Cycles(22)
                [] writer = "IMMA" -> Cycles(10)
                [] OTHER -> Cycles(1))
         [] reader \in {"CoupledFMA", "IMADLo"} ->
              (CASE writer = "CoupledDisp64" -> Cycles(6)
                [] writer \in {"CoupledAlu", "CoupledDisp"} -> Cycles(5)
                [] writer \in {"CoupledFMA", "IMADLo"} -> Cycles(4)
                [] writer = "IMADWideLower" -> Cycles(2)
                [] writer = "IMADWideUpper" -> Cycles(4)
                [] writer = "RedirectedFP64" -> Cycles(9)
                [] writer = "RedirectedFP16" -> Cycles(8)
                [] writer = "RedirectedHMMA_884_F16" -> Cycles(13)
                [] writer = "RedirectedHMMA_884_F32" -> Cycles(10)
                [] writer = "RedirectedHMMA_1688" -> Cycles(14)
                [] writer = "RedirectedHMMA_16816" -> Cycles(22)
                [] writer = "IMMA" -> Cycles(10)
                [] OTHER -> Cycles(1))
         [] reader = "IMADWideAB" ->
              (CASE writer = "CoupledDisp64" -> Cycles(6)
                [] writer \in {"CoupledAlu", "CoupledDisp"} -> Cycles(5)
                [] writer \in {"CoupledFMA", "IMADLo"} -> Cycles(4)
                [] writer = "IMADWideLower" -> Cycles(4)
                [] writer = "IMADWideUpper" -> Cycles(6)
                [] writer = "RedirectedFP64" -> Cycles(9)
                [] writer = "RedirectedFP16" -> Cycles(8)
                [] writer = "RedirectedHMMA_884_F16" -> Cycles(13)
                [] writer = "RedirectedHMMA_884_F32" -> Cycles(10)
                [] writer = "RedirectedHMMA_1688" -> Cycles(14)
                [] writer = "RedirectedHMMA_16816" -> Cycles(22)
                [] writer = "IMMA" -> Cycles(10)
                [] OTHER -> Cycles(1))
         [] reader \in {"IMADWideLower", "IMADWideUpper"} ->
              (CASE reader = "IMADWideLower" ->
                     (CASE writer = "CoupledDisp64" -> Cycles(6)
                       [] writer \in {"CoupledAlu", "CoupledDisp"} -> Cycles(5)
                       [] writer \in {"CoupledFMA", "IMADLo"} -> Cycles(4)
                       [] writer = "IMADWideLower" -> Cycles(2)
                       [] writer = "IMADWideUpper" -> Cycles(2)
                       [] writer = "RedirectedFP64" -> Cycles(9)
                       [] writer = "RedirectedFP16" -> Cycles(8)
                       [] writer = "RedirectedHMMA_884_F16" -> Cycles(13)
                       [] writer = "RedirectedHMMA_884_F32" -> Cycles(10)
                       [] writer = "RedirectedHMMA_1688" -> Cycles(14)
                       [] writer = "RedirectedHMMA_16816" -> Cycles(22)
                       [] writer = "IMMA" -> Cycles(10)
                       [] OTHER -> Cycles(1))
                [] reader = "IMADWideUpper" ->
                     (CASE writer = "CoupledDisp64" -> Cycles(4)
                       [] writer \in {"CoupledAlu", "CoupledDisp"} -> Cycles(3)
                       [] writer \in {"CoupledFMA", "IMADLo"} -> Cycles(2)
                       [] writer = "IMADWideLower" -> Cycles(2)
                       [] writer = "IMADWideUpper" -> Cycles(2)
                       [] writer = "RedirectedFP64" -> Cycles(7)
                       [] writer = "RedirectedFP16" -> Cycles(6)
                       [] writer = "RedirectedHMMA_884_F16" -> Cycles(11)
                       [] writer = "RedirectedHMMA_884_F32" -> Cycles(8)
                       [] writer = "RedirectedHMMA_1688" -> Cycles(12)
                       [] writer = "RedirectedHMMA_16816" -> Cycles(20)
                       [] writer = "IMMA" -> Cycles(8)
                       [] OTHER -> Cycles(1))
                [] OTHER -> Panic("Illegal IMAD field"))
         [] reader = "RedirectedFP64" ->
              (CASE writer = "CoupledDisp64" -> Cycles(6)
                [] writer \in {"CoupledAlu", "CoupledDisp"} -> Cycles(6)
                [] writer \in {"CoupledFMA", "IMADLo"} -> Cycles(6)
                [] writer = "IMADWideLower" -> Cycles(6)
                [] writer = "IMADWideUpper" -> Cycles(6)
                [] writer = "RedirectedFP64" -> Cycles(8)
                [] writer = "RedirectedFP16" -> Cycles(8)
                [] writer = "RedirectedHMMA_884_F16" -> Cycles(13)
                [] writer = "RedirectedHMMA_884_F32" -> Cycles(10)
                [] writer = "RedirectedHMMA_1688" -> Cycles(14)
                [] writer = "RedirectedHMMA_16816" -> Cycles(22)
                [] writer = "IMMA" -> Cycles(10)
                [] OTHER -> Cycles(1))
         [] reader = "RedirectedFP16" ->
              (CASE writer = "CoupledDisp64" -> Cycles(6)
                [] writer \in {"CoupledAlu", "CoupledDisp"} -> Cycles(6)
                [] writer \in {"CoupledFMA", "IMADLo"} -> Cycles(6)
                [] writer = "IMADWideLower" -> Cycles(6)
                [] writer = "IMADWideUpper" -> Cycles(6)
                [] writer = "RedirectedFP64" -> Cycles(9)
                [] writer = "RedirectedFP16" -> Cycles(6)
                [] writer = "RedirectedHMMA_884_F16" -> Cycles(13)
                [] writer = "RedirectedHMMA_884_F32" -> Cycles(10)
                [] writer = "RedirectedHMMA_1688" -> Cycles(14)
                [] writer = "RedirectedHMMA_16816" -> Cycles(22)
                [] writer = "IMMA" -> Cycles(10)
                [] OTHER -> Cycles(1))
         [] reader \in {"RedirectedHMMA_884_F16", "RedirectedHMMA_884_F32",
                 "RedirectedHMMA_1688", "RedirectedHMMA_16816", "Decoupled"} ->
              (CASE writer = "CoupledDisp64" -> Cycles(6)
                [] writer \in {"CoupledAlu", "CoupledDisp"} -> Cycles(6)
                [] writer \in {"CoupledFMA", "IMADLo"} -> Cycles(6)
                [] writer = "IMADWideLower" -> Cycles(6)
                [] writer = "IMADWideUpper" -> Cycles(6)
                [] writer = "RedirectedFP64" -> Cycles(9)
                [] writer = "RedirectedFP16" -> Cycles(8)
                [] writer = "RedirectedHMMA_884_F16" -> Cycles(13)
                [] writer = "RedirectedHMMA_884_F32" -> Cycles(10)
                [] writer = "RedirectedHMMA_1688" -> Cycles(14)
                [] writer = "RedirectedHMMA_16816" -> Cycles(22)
                [] writer = "IMMA" -> Cycles(10)
                [] OTHER -> Cycles(1))
         [] reader \in {"IMMA", "DecoupledOther"} ->
              (CASE writer = "CoupledDisp64" -> Cycles(8)
                [] writer \in {"CoupledAlu", "CoupledDisp"} -> Cycles(8)
                [] writer \in {"CoupledFMA", "IMADLo"} -> Cycles(8)
                [] writer = "IMADWideLower" -> Cycles(8)
                [] writer = "IMADWideUpper" -> Cycles(8)
                [] writer = "RedirectedFP64" -> Cycles(9)
                [] writer = "RedirectedFP16" -> Cycles(8)
                [] writer = "RedirectedHMMA_884_F16" -> Cycles(13)
                [] writer = "RedirectedHMMA_884_F32" -> Cycles(10)
                [] writer = "RedirectedHMMA_1688" -> Cycles(14)
                [] writer = "RedirectedHMMA_16816" -> Cycles(22)
                [] writer = "IMMA" -> Cycles(10)
                [] OTHER -> Cycles(1))
         [] reader \in {"BMov", "GuardPredicate"} -> Panic("Not a RAW category")

\* RegLatencySM75::write_after_write
RegLatencySM75_write_after_write(writer1, writer2, has_pred) ==
  IF writer1 \in {"IMADWideAB", "DecoupledOther"}
  THEN Panic("Illegal reg latency for writer")
  ELSE CASE writer2 = "CoupledDisp64" ->
              (CASE writer1 \in {"CoupledDisp64", "CoupledDisp", "CoupledAlu", "CoupledFMA",
                      "IMADLo", "IMADWideLower", "IMADWideUpper"} -> Cycles(1)
                [] writer1 = "RedirectedFP64" -> Cycles(4)
                [] writer1 = "RedirectedFP16" -> Cycles(3)
                [] writer1 = "RedirectedHMMA_884_F16" -> Cycles(8)
                [] writer1 = "RedirectedHMMA_884_F32" -> Cycles(pred(has_pred, 2, 2))
                [] writer1 = "RedirectedHMMA_1688" -> Cycles(9)
                [] writer1 = "RedirectedHMMA_16816" -> Cycles(17)
                [] writer1 = "IMMA" -> Cycles(5)
                [] OTHER -> Cycles(1))
         [] writer2 \in {"CoupledDisp", "CoupledAlu"} ->
              (CASE writer1 = "CoupledDisp64" -> Cycles(2)
                [] writer1 \in {"CoupledDisp", "CoupledAlu", "CoupledFMA", "IMADLo",
                        "IMADWideLower", "IMADWideUpper"} -> Cycles(1)
                [] writer1 = "RedirectedFP64" -> Cycles(pred(has_pred, 4, 1))
                [] writer1 = "RedirectedFP16" -> Cycles(pred(has_pred, 3, 1))
                [] writer1 = "RedirectedHMMA_884_F16" -> Cycles(pred(has_pred, 8, 1))
                [] writer1 = "RedirectedHMMA_884_F32" -> Cycles(pred(has_pred, 5, 1))
                [] writer1 = "RedirectedHMMA_1688" -> Cycles(pred(has_pred, 9, 1))
                [] writer1 = "RedirectedHMMA_16816" -> Cycles(pred(has_pred, 17, 1))
                [] writer1 = "IMMA" -> Cycles(pred(has_pred, 5, 1))
                [] OTHER -> Cycles(1))
         [] writer2 \in {"CoupledFMA", "IMADLo"} ->
              (CASE writer1 = "CoupledDisp64" -> Cycles(2)
                [] writer1 \in {"CoupledDisp", "CoupledAlu", "CoupledFMA", "IMADLo",
                        "IMADWideLower"} -> Cycles(1)
                [] writer1 = "IMADWideUpper" -> Cycles(pred(has_pred, 1, 1))
                [] writer1 = "RedirectedFP64" -> Cycles(pred(has_pred, 4, 1))
                [] writer1 = "RedirectedFP16" -> Cycles(pred(has_pred, 3, 1))
                [] writer1 = "RedirectedHMMA_884_F16" -> Cycles(pred(has_pred, 8, 1))
                [] writer1 = "RedirectedHMMA_884_F32" -> Cycles(pred(has_pred, 5, 1))
                [] writer1 = "RedirectedHMMA_1688" -> Cycles(pred(has_pred, 9, 1))
                [] writer1 = "RedirectedHMMA_16816" -> Cycles(pred(has_pred, 17, 1))
                [] writer1 = "IMMA" -> Cycles(pred(has_pred, 5, 1))
                [] OTHER -> Cycles(1))
         [] writer2 = "IMADWideLower" ->
              (CASE writer1 = "CoupledDisp64" -> Cycles(pred(has_pred, 2, 2))
                [] writer1 \in {"CoupledDisp", "CoupledAlu"} -> Cycles(pred(has_pred, 2, 1))
                [] writer1 \in {"CoupledFMA", "IMADLo"} -> Cycles(pred(has_pred, 1, 1))
                [] writer1 = "IMADWideLower" -> Cycles(1)
                [] writer1 = "IMADWideUpper" -> Cycles(1)
                [] writer1 = "RedirectedFP64" -> Cycles(pred(has_pred, 4, 3))
                [] writer1 = "RedirectedFP16" -> Cycles(pred(has_pred, 3, 3))
                [] writer1 = "RedirectedHMMA_884_F16" -> Cycles(pred(has_pred, 8, 3))
                [] writer1 = "RedirectedHMMA_884_F32" -> Cycles(pred(has_pred, 5, 3))
                [] writer1 = "RedirectedHMMA_1688" -> Cycles(pred(has_pred, 9, 3))
                [] writer1 = "RedirectedHMMA_16816" -> Cycles(pred(has_pred, 17, 3))
                [] writer1 = "IMMA" -> Cycles(pred(has_pred, 5, 3))
                [] OTHER -> Cycles(1))
         [] writer2 = "IMADWideUpper" ->
              (CASE writer1 = "CoupledDisp64" -> Cycles(pred(has_pred, 1, 1))
                [] writer1 \in {"CoupledDisp", "CoupledAlu", "CoupledFMA", "IMADLo",
                        "IMADWideLower", "IMADWideUpper"} -> Cycles(1)
                [] writer1 = "RedirectedFP64" -> Cycles(pred(has_pred, 4, 1))
                [] writer1 = "RedirectedFP16" -> Cycles(pred(has_pred, 3, 1))
                [] writer1 = "RedirectedHMMA_884_F16" -> Cycles(pred(has_pred, 8, 1))
                [] writer1 = "RedirectedHMMA_884_F32" -> Cycles(pred(has_pred, 5, 1))
                [] writer1 = "RedirectedHMMA_1688" -> Cycles(pred(has_pred, 9, 1))
                [] writer1 = "RedirectedHMMA_16816" -> Cycles(pred(has_pred, 17, 1))
                [] writer1 = "IMMA" -> Cycles(pred(has_pred, 5, 1))
                [] OTHER -> Cycles(1))
         [] writer2 = "RedirectedFP64" ->
              (CASE writer1 \in {"CoupledDisp64", "CoupledDisp", "CoupledAlu", "CoupledFMA",
                      "IMADLo", "IMADWideLower", "IMADWideUpper"} -> Cycles(2)
                [] writer1 = "RedirectedFP64" -> Cycles(1)
                [] writer1 = "RedirectedFP16" -> Cycles(2)
                [] writer1 = "RedirectedHMMA_884_F16" -> Cycles(5)
                [] writer1 = "RedirectedHMMA_884_F32" -> Cycles(2)
                [] writer1 = "RedirectedHMMA_1688" -> Cycles(6)
                [] writer1 = "RedirectedHMMA_16816" -> Cycles(14)
                [] writer1 = "IMMA" -> Cycles(2)
                [] OTHER -> Cycles(1))
         [] writer2 = "RedirectedFP16" ->
              (CASE writer1 \in {"CoupledDisp64", "CoupledDisp", "CoupledAlu", "CoupledFMA",
                      "IMADLo", "IMADWideLower", "IMADWideUpper"} -> Cycles(2)
                [] writer1 = "RedirectedFP64" -> Cycles(pred(has_pred, 1, 1))
                [] writer1 = "RedirectedFP16" -> Cycles(1)
                [] writer1 = "RedirectedHMMA_884_F16" -> Cycles(pred(has_pred, 6, 1))
                [] writer1 = "RedirectedHMMA_884_F32" -> Cycles(pred(has_pred, 3, 1))
                [] writer1 = "RedirectedHMMA_1688" -> Cycles(pred(has_pred, 7, 1))
                [] writer1 = "RedirectedHMMA_16816" -> Cycles(pred(has_pred, 15, 1))
                [] writer1 = "IMMA" -> Cycles(pred(has_pred, 3, 1))
                [] OTHER -> Cycles(1))
         [] writer2 = "RedirectedHMMA_884_F16" ->
              (CASE writer1 \in {"CoupledDisp64", "CoupledDisp", "CoupledAlu", "CoupledFMA",
                      "IMADLo", "IMADWideLower", "IMADWideUpper"} -> Cycles(2)
                [] writer1 = "RedirectedFP64" -> Cycles(pred(has_pred, 3, 2))
                [] writer1 = "RedirectedFP16" -> Cycles(pred(has_pred, 2, 2))
                [] writer1 = "RedirectedHMMA_884_F16" -> Cycles(1)
                [] writer1 = "RedirectedHMMA_884_F32" -> Cycles(pred(has_pred, 2, 4))
                [] writer1 = "RedirectedHMMA_1688" -> Cycles(pred(has_pred, 6, 4))
                [] writer1 = "RedirectedHMMA_16816" -> Cycles(pred(has_pred, 16, 2))
                [] writer1 = "IMMA" -> Cycles(pred(has_pred, 2, 4))
                [] OTHER -> Cycles(1))
         [] writer2 = "RedirectedHMMA_884_F32" ->
              (CASE writer1 \in {"CoupledDisp64", "CoupledDisp", "CoupledAlu", "CoupledFMA",
                      "IMADLo", "IMADWideLower", "IMADWideUpper"} -> Cycles(2)
                [] writer1 = "RedirectedFP64" -> Cycles(pred(has_pred, 3, 2))
                [] writer1 = "RedirectedFP16" -> Cycles(pred(has_pred, 2, 2))
                [] writer1 = "RedirectedHMMA_884_F16" -> Cycles(pred(has_pred, 4, 5))
                [] writer1 = "RedirectedHMMA_884_F32" -> Cycles(1)
                [] writer1 = "RedirectedHMMA_1688" -> Cycles(pred(has_pred, 6, 4))
                [] writer1 = "RedirectedHMMA_16816" -> Cycles(pred(has_pred, 16, 2))
                [] writer1 = "IMMA" -> Cycles(pred(has_pred, 2, 4))
                [] OTHER -> Cycles(1))
         [] writer2 = "RedirectedHMMA_1688" ->
              (CASE writer1 \in {"CoupledDisp64", "CoupledDisp", "CoupledAlu", "CoupledFMA",
                      "IMADLo", "IMADWideLower", "IMADWideUpper", "RedirectedFP64",
                              "RedirectedFP16"} -> Cycles(2)
                [] writer1 = "RedirectedHMMA_884_F16" -> Cycles(4)
                [] writer1 = "RedirectedHMMA_884_F32" -> Cycles(2)
                [] writer1 = "RedirectedHMMA_1688" -> Cycles(1)
                [] writer1 = "RedirectedHMMA_16816" -> Cycles(16)
                [] writer1 = "IMMA" -> Cycles(2)
                [] OTHER -> Cycles(1))
         [] writer2 = "RedirectedHMMA_16816" ->
              (CASE writer1 \in {"CoupledDisp64", "CoupledDisp", "CoupledAlu", "CoupledFMA",
                      "IMADLo", "IMADWideLower", "IMADWideUpper", "RedirectedFP64",
                              "RedirectedFP16"} -> Cycles(2)
                [] writer1 = "RedirectedHMMA_884_F16" -> Cycles(4)
                [] writer1 = "RedirectedHMMA_884_F32" -> Cycles(2)
                [] writer1 = "RedirectedHMMA_1688" -> Cycles(6)
                [] writer1 = "RedirectedHMMA_16816" -> Cycles(1)
                [] writer1 = "IMMA" -> Cycles(2)
                [] OTHER -> Cycles(1))
         [] writer2 = "IMMA" ->
              (CASE writer1 \in {"CoupledDisp64", "CoupledDisp", "CoupledAlu", "CoupledFMA",
                      "IMADLo", "IMADWideLower", "IMADWideUpper"} -> Cycles(pred(has_pred, 2,
                              2))
                [] writer1 = "RedirectedFP64" -> Cycles(pred(has_pred, 2, 3))
                [] writer1 = "RedirectedFP16" -> Cycles(pred(has_pred, 2, 2))
                [] writer1 = "RedirectedHMMA_884_F16" -> Cycles(pred(has_pred, 2, 7))
                [] writer1 = "RedirectedHMMA_884_F32" -> Cycles(pred(has_pred, 2, 4))
                [] writer1 = "RedirectedHMMA_1688" -> Cycles(pred(has_pred, 6, 4))
                [] writer1 = "RedirectedHMMA_16816" -> Cycles(pred(has_pred, 14, 4))
                [] writer1 = "IMMA" -> Cycles(1)
                [] OTHER -> Cycles(1))
         [] writer2 = "Decoupled" ->
              (CASE writer1 \in {"CoupledDisp64", "CoupledDisp", "CoupledAlu", "CoupledFMA",
                      "IMADLo", "IMADWideLower", "IMADWideUpper", "RedirectedFP64",
                              "RedirectedFP16", "RedirectedHMMA_884_F16",
                                      "RedirectedHMMA_884_F32",
                                              "RedirectedHMMA_1688"} -> Cycles(6)
                [] writer1 = "RedirectedHMMA_16816" -> Cycles(14)
                [] writer1 = "IMMA" -> Cycles(2)
                [] OTHER -> Cycles(1))
         [] writer2 = "BMov" ->
              (CASE writer1 \in {"CoupledDisp64", "CoupledDisp", "CoupledAlu", "CoupledFMA",
                      "IMADLo", "IMADWideLower", "IMADWideUpper", "RedirectedFP64",
                              "RedirectedFP16", "RedirectedHMMA_884_F16",
                                      "RedirectedHMMA_884_F32",
                                              "RedirectedHMMA_1688"} -> Cycles(9)
                [] writer1 = "RedirectedHMMA_16816" -> Cycles(14)
                [] writer1 = "IMMA" -> Cycles(9)
                [] OTHER -> Cycles(1))
         [] writer2 \in {"IMADWideAB", "DecoupledOther",
                 "GuardPredicate"} -> Panic("Not a WAW category")

\* RegLatencySM75::write_after_read
RegLatencySM75_write_after_read(reader, writer) ==
  CASE writer \in {"CoupledDisp64", "CoupledDisp", "CoupledAlu", "CoupledFMA", "IMADLo",
          "IMADWideLower", "IMADWideUpper"} ->
         (CASE reader = "RedirectedHMMA_1688" -> Cycles(5)
           [] reader = "RedirectedHMMA_16816" -> Cycles(13)
           [] OTHER -> Cycles(1))
    [] writer = "RedirectedFP64" ->
         (CASE reader = "RedirectedFP64" -> Cycles(1)
           [] reader = "RedirectedHMMA_1688" -> Cycles(6)
           [] reader = "RedirectedHMMA_16816" -> Cycles(14)
           [] reader = "Decoupled" -> Cycles(1)
           [] OTHER -> Cycles(2))
    [] writer = "RedirectedFP16" ->
         (CASE reader = "RedirectedFP16" -> Cycles(1)
           [] reader = "RedirectedHMMA_1688" -> Cycles(6)
           [] reader = "RedirectedHMMA_16816" -> Cycles(14)
           [] reader = "Decoupled" -> Cycles(1)
           [] OTHER -> Cycles(2))
    [] writer = "RedirectedHMMA_884_F16" ->
         (CASE reader = "RedirectedHMMA_884_F16" -> Cycles(1)
           [] reader = "RedirectedHMMA_1688" -> Cycles(6)
           [] reader = "RedirectedHMMA_16816" -> Cycles(14)
           [] reader = "Decoupled" -> Cycles(1)
           [] OTHER -> Cycles(2))
    [] writer = "RedirectedHMMA_884_F32" ->
         (CASE reader = "RedirectedHMMA_884_F32" -> Cycles(1)
           [] reader = "RedirectedHMMA_1688" -> Cycles(6)
           [] reader = "RedirectedHMMA_16816" -> Cycles(14)
           [] reader = "Decoupled" -> Cycles(1)
           [] OTHER -> Cycles(2))
    [] writer = "RedirectedHMMA_1688" ->
         (CASE reader = "RedirectedHMMA_1688" -> Cycles(1)
           [] reader = "RedirectedHMMA_16816" -> Cycles(14)
           [] reader = "Decoupled" -> Cycles(1)
           [] OTHER -> Cycles(2))
    [] writer = "RedirectedHMMA_16816" ->
         (CASE reader = "RedirectedHMMA_1688" -> Cycles(6)
           [] reader = "RedirectedHMMA_16816" -> Cycles(1)
           [] reader = "Decoupled" -> Cycles(1)
           [] OTHER -> Cycles(2))
    [] writer = "IMMA" ->
         (CASE reader = "RedirectedHMMA_1688" -> Cycles(6)
           [] reader = "RedirectedHMMA_16816" -> Cycles(14)
           [] reader = "IMMA" -> Cycles(1)
           [] reader = "Decoupled" -> Cycles(1)
           [] OTHER -> Cycles(2))
    [] writer = "Decoupled" ->
         (CASE reader = "RedirectedHMMA_1688" -> Cycles(2)
           [] reader = "RedirectedHMMA_16816" -> Cycles(14)
           [] reader = "Decoupled" -> Cycles(1)
           [] OTHER -> Cycles(2))
    [] writer = "BMov" ->
         (CASE reader = "RedirectedHMMA_1688" -> Cycles(9)
           [] reader = "RedirectedHMMA_16816" -> Cycles(14)
           [] reader = "Decoupled" -> Cycles(1)
           [] OTHER -> Cycles(9))
    [] writer \in {"IMADWideAB", "DecoupledOther", "GuardPredicate"} -> Panic("Illegal in WAR")

\* RegLatencySM75::pred_read_after_write
RegLatencySM75_pred_read_after_write(writer, reader) ==
  CASE reader = "CoupledDisp" ->
         (CASE writer \in {"CoupledDisp", "CoupledAlu", "CoupledFMA", "IMADLo",
                 "IMADWideUpper", "IMADWideLower"} -> Cycles(12)
           [] writer = "RedirectedFP64" -> Cycles(15)
           [] writer = "RedirectedFP16" -> Cycles(14)
           [] writer = "Decoupled" -> Cycles(1)
           [] OTHER -> Panic("Illegal RAW in Predicate"))
    [] reader = "CoupledAlu" ->
         (CASE writer \in {"CoupledDisp", "CoupledAlu"} -> Cycles(4)
           [] writer \in {"CoupledFMA", "IMADLo", "IMADWideUpper", "IMADWideLower"} -> Cycles(5)
           [] writer = "RedirectedFP64" -> Cycles(9)
           [] writer = "RedirectedFP16" -> Cycles(8)
           [] writer = "Decoupled" -> Cycles(1)
           [] OTHER -> Panic("Illegal RAW in Predicate"))
    [] reader \in {"CoupledFMA", "IMADLo"} ->
         (CASE writer \in {"CoupledDisp", "CoupledAlu"} -> Cycles(5)
           [] writer \in {"CoupledFMA", "IMADLo", "IMADWideUpper", "IMADWideLower"} -> Cycles(4)
           [] writer = "RedirectedFP64" -> Cycles(9)
           [] writer = "RedirectedFP16" -> Cycles(8)
           [] writer = "Decoupled" -> Cycles(1)
           [] OTHER -> Panic("Illegal RAW in Predicate"))
    [] reader \in {"IMADWideUpper", "IMADWideLower"} ->
         (CASE writer \in {"CoupledDisp", "CoupledAlu"} -> Cycles(5)
           [] writer \in {"CoupledFMA", "IMADLo"} -> Cycles(4)
           [] writer \in {"IMADWideUpper", "IMADWideLower"} -> Cycles(2)
           [] writer = "RedirectedFP64" -> Cycles(9)
           [] writer = "RedirectedFP16" -> Cycles(8)
           [] writer = "Decoupled" -> Cycles(1)
           [] OTHER -> Panic("Illegal RAW in Predicate"))
    [] reader = "RedirectedFP64" ->
         (CASE writer \in {"CoupledDisp", "CoupledAlu", "CoupledFMA", "IMADLo",
                 "IMADWideUpper", "IMADWideLower"} -> Cycles(12)
           [] writer = "RedirectedFP64" -> Cycles(8)
           [] writer = "RedirectedFP16" -> Cycles(14)
           [] writer = "Decoupled" -> Cycles(1)
           [] OTHER -> Panic("Illegal RAW in Predicate"))
    [] reader = "RedirectedFP16" ->
         (CASE writer \in {"CoupledDisp", "CoupledAlu", "CoupledFMA", "IMADLo",
                 "IMADWideUpper", "IMADWideLower"} -> Cycles(12)
           [] writer = "RedirectedFP64" -> Cycles(15)
           [] writer = "RedirectedFP16" -> Cycles(6)
           [] writer = "Decoupled" -> Cycles(1)
           [] OTHER -> Panic("Illegal RAW in Predicate"))
    [] reader \in {"Decoupled", "GuardPredicate"} ->
         (CASE writer \in {"CoupledDisp", "CoupledAlu", "CoupledFMA", "IMADLo",
                 "IMADWideUpper", "IMADWideLower"} -> Cycles(12)
           [] writer = "RedirectedFP64" -> Cycles(15)
           [] writer = "RedirectedFP16" -> Cycles(14)
           [] writer = "Decoupled" -> Cycles(1)
           [] OTHER -> Panic("Illegal RAW in Predicate"))
    [] OTHER -> Panic("Illegal reader in reg predicate")

\* RegLatencySM75::pred_write_after_write
RegLatencySM75_pred_write_after_write(writer1, writer2, has_pred) ==
  CASE writer2 \in {"CoupledDisp", "CoupledAlu", "CoupledFMA", "IMADLo"} ->
         (CASE writer1 \in {"CoupledDisp", "CoupledAlu", "CoupledFMA", "IMADLo",
                 "IMADWideUpper", "IMADWideLower"} -> Cycles(1)
           [] writer1 = "RedirectedFP64" -> Cycles(pred(has_pred, 4, 1))
           [] writer1 = "RedirectedFP16" -> Cycles(pred(has_pred, 3, 1))
           [] writer1 = "Decoupled" -> Cycles(1)
           [] OTHER -> Panic("Illegal RAW in Predicate"))
    [] writer2 \in {"IMADWideUpper", "IMADWideLower"} ->
         (CASE writer1 \in {"CoupledDisp", "CoupledAlu"} -> Cycles(pred(has_pred, 1, 2))
           [] writer1 \in {"CoupledFMA", "IMADLo"} -> Cycles(pred(has_pred, 1, 1))
           [] writer1 \in {"IMADWideUpper", "IMADWideLower"} -> Cycles(1)
           [] writer1 = "RedirectedFP64" -> Cycles(pred(has_pred, 4, 3))
           [] writer1 = "RedirectedFP16" -> Cycles(pred(has_pred, 3, 3))
           [] writer1 = "Decoupled" -> Cycles(1)
           [] OTHER -> Panic("Illegal RAW in Predicate"))
    [] writer2 = "RedirectedFP64" ->
         (CASE writer1 \in {"CoupledDisp", "CoupledAlu", "CoupledFMA", "IMADLo",
                 "IMADWideUpper", "IMADWideLower"} -> Cycles(pred(has_pred, 2, 2))
           [] writer1 = "RedirectedFP64" -> Cycles(1)
           [] writer1 = "RedirectedFP16" -> Cycles(pred(has_pred, 2, 4))
           [] writer1 = "Decoupled" -> Cycles(1)
           [] OTHER -> Panic("Illegal RAW in Predicate"))
    [] writer2 = "RedirectedFP16" ->
         (CASE writer1 \in {"CoupledDisp", "CoupledAlu", "CoupledFMA", "IMADLo",
                 "IMADWideUpper", "IMADWideLower"} -> Cycles(pred(has_pred, 2, 4))
           [] writer1 = "RedirectedFP64" -> Cycles(pred(has_pred, 2, 7))
           [] writer1 = "RedirectedFP16" -> Cycles(1)
           [] writer1 = "Decoupled" -> Cycles(1)
           [] OTHER -> Panic("Illegal RAW in Predicate"))
    [] writer2 = "Decoupled" ->
         (CASE writer1 \in {"CoupledDisp", "CoupledAlu", "CoupledFMA", "IMADLo",
                 "IMADWideUpper", "IMADWideLower", "RedirectedFP64",
                         "RedirectedFP16"} -> Cycles(2)
           [] writer1 = "Decoupled" -> Cycles(1)
           [] OTHER -> Panic("Illegal RAW in Predicate"))
    [] OTHER -> Panic("Illegal WAR category in Predicates")

\* RegLatencySM75::pred_write_after_read
RegLatencySM75_pred_write_after_read(reader, writer) ==
  CASE writer \in {"CoupledDisp", "CoupledAlu", "CoupledFMA", "IMADLo", "IMADWideUpper",
          "IMADWideLower"} -> Cycles(1)
    [] writer = "RedirectedFP64" ->
         (CASE reader \in {"CoupledAlu", "CoupledFMA", "IMADLo", "IMADWideUpper",
                 "IMADWideLower", "RedirectedFP16"} -> Cycles(2)
           [] OTHER -> Cycles(1))
    [] writer = "RedirectedFP16" ->
         (CASE reader \in {"CoupledAlu", "CoupledFMA", "IMADLo", "IMADWideUpper",
                 "IMADWideLower", "RedirectedFP64"} -> Cycles(2)
           [] OTHER -> Cycles(1))
    [] writer = "Decoupled" ->
         (CASE reader \in {"CoupledAlu", "CoupledFMA", "IMADLo", "IMADWideUpper",
                 "IMADWideLower", "RedirectedFP16", "RedirectedFP64"} -> Cycles(2)
           [] OTHER -> Cycles(1))
    [] OTHER -> Panic("Illegal WAR category in Predicates")

\* URegLatencySM75::read_after_write
URegLatencySM75_read_after_write(writer, reader) ==
  CASE reader = "Udp" ->
         (CASE writer = "Udp" -> Cycles(4)
           [] writer = "R2UR" -> Cycles(2)
           [] writer \in {"Uldc", "VoteU", "Umov"} -> Cycles(2)
           [] OTHER -> Panic("Illegal writer in raw ureg latency "))
    [] reader = "VectorCoupled" ->
         (CASE writer = "Udp" -> Cycles(6)
           [] writer = "R2UR" -> Cycles(2)
           [] writer \in {"Uldc", "VoteU", "Umov"} -> Cycles(2)
           [] OTHER -> Panic("Illegal writer in raw ureg latency "))
    [] reader = "VectorDecoupled" ->
         (CASE writer = "Udp" -> Cycles(9)
           [] writer = "R2UR" -> Cycles(2)
           [] writer \in {"Uldc", "VoteU", "Umov"} -> Cycles(2)
           [] OTHER -> Panic("Illegal writer in raw ureg latency "))
    [] reader \in {"Uldc", "VectorCoupledBindless", "VectorDecoupledBindless"} ->
         (CASE writer = "Udp" -> Cycles(12)
           [] writer = "R2UR" -> Cycles(2)
           [] writer \in {"Uldc", "VoteU", "Umov"} -> Cycles(5)
           [] OTHER -> Panic("Illegal writer in raw ureg latency "))
    [] reader = "Umov" ->
         (CASE writer = "Udp" -> Cycles(7)
           [] writer = "R2UR" -> Cycles(2)
           [] writer \in {"Uldc", "VoteU", "Umov"} -> Cycles(2)
           [] OTHER -> Panic("Illegal writer in raw ureg latency"))
    [] OTHER -> Panic("Illegal read in ureg raw latency")

\* URegLatencySM75::write_after_write
URegLatencySM75_write_after_write(writer1, writer2, has_pred) ==
  CASE writer2 = "Udp" ->
         (CASE writer1 = "Udp" -> Cycles(1)
           [] writer1 = "R2UR" -> Cycles(2)
           [] writer1 \in {"Uldc", "VoteU", "Umov"} -> Cycles(1)
           [] OTHER -> Panic("Illegal writer in ureg waw latency"))
    [] writer2 = "R2UR" ->
         (CASE writer1 = "Udp" -> Cycles(pred(has_pred, 4, 6))
           [] writer1 = "R2UR" -> Cycles(2)
           [] writer1 \in {"Uldc", "VoteU", "Umov"} -> Cycles(4)
           [] OTHER -> Panic("Illegal writer in ureg waw latency"))
    [] writer2 \in {"Uldc", "VoteU", "Umov"} ->
         (CASE writer1 = "Udp" -> Cycles(7)
           [] writer1 = "R2UR" -> Cycles(2)
           [] writer1 \in {"Uldc", "VoteU", "Umov"} -> Cycles(1)
           [] OTHER -> Panic("Illegal writer in ureg waw latency"))
    [] OTHER -> Panic("Illegal writer in ureg waw latency")

\* URegLatencySM75::write_after_read
URegLatencySM75_write_after_read(reader, writer) ==
  CASE writer = "Udp" -> Cycles(1)
    [] writer = "R2UR" -> Cycles(1)
    [] writer \in {"Uldc", "VoteU", "Umov"} ->
         (CASE reader = "Udp" -> Cycles(3)
           [] OTHER -> Cycles(1))
    [] OTHER -> Panic("Illegal writer in ureg war latency")

\* URegLatencySM75::pred_read_after_write
URegLatencySM75_pred_read_after_write(writer, reader) ==
  CASE reader = "Udp" ->
         (CASE writer = "Udp" -> Cycles(4)
           [] writer = "VoteU" -> Cycles(1)
           [] OTHER -> Panic("Illegal writer in upred raw latency"))
    [] reader = "VectorCoupled" ->
         (CASE writer = "Udp" -> Cycles(6)
           [] writer = "VoteU" -> Cycles(1)
           [] OTHER -> Panic("Illegal writer in upred raw latency"))
    [] reader = "GuardPredicate" ->
         (CASE writer = "Udp" -> Cycles(11)
           [] writer = "VoteU" -> Cycles(5)
           [] OTHER -> Panic("Illegal writer in upred raw latency"))
    [] OTHER -> Panic("Illegal reader in upred raw latency")

\* URegLatencySM75::pred_write_after_write
URegLatencySM75_pred_write_after_write(writer1, writer2) ==
  CASE writer2 = "Udp" -> Cycles(1)
    [] writer2 = "VoteU" ->
         (CASE writer1 = "Udp" -> Cycles(7)
           [] writer1 = "VoteU" -> Cycles(1)
           [] OTHER -> Panic("Illegal writer1 in upred raw latency"))
    [] OTHER -> Panic("Illegal writer2 in upred raw latency")

\* URegLatencySM75::pred_write_after_read
URegLatencySM75_pred_write_after_read(reader, writer) ==
  CASE writer = "Udp" -> Cycles(1)
    [] writer = "VoteU" ->
         (CASE reader = "Udp" -> Cycles(2)
           [] OTHER -> Cycles(1))
    [] OTHER -> Panic("Illegal writer2 in upred raw latency")

\* The class of an op as a writer of its destination idx, as a reader of its
\* source idx.
RegWriter(op, idx) == RegLatencySM75_op_category(op, FALSE, idx)

RegReader(op, idx) == RegLatencySM75_op_category(op, TRUE, idx)

URegWriter(op, idx) == URegLatencySM75_op_category(op, FALSE, idx)

URegReader(op, idx) == URegLatencySM75_op_category(op, TRUE, idx)

\* A table looked up with the classes c1 and c2: op_category panics before
\* the table is read when an op has no class.
Looked(c1, c2, r) ==
  IF NoCategory \in {c1, c2} THEN Panic("Illegal instuction in category") ELSE r

\* A read-after-write latency that reads the GPR tables for every file.
raw_gpr_tables_only(write, dst_idx, read, src_idx) ==
  IF write.dsts[dst_idx + 1].kind = "None" THEN Cycles(0)
  ELSE Looked(RegWriter(write, dst_idx), RegReader(read, src_idx),
              RegLatencySM75_read_after_write(RegWriter(write, dst_idx),
                                              RegReader(read, src_idx)))

\* SM75Latency::raw (dst_idx and src_idx count from 0)
SM75Latency_raw(write, dst_idx, read, src_idx) ==
  IF write.dsts[dst_idx + 1].kind = "None" THEN Cycles(0)
  ELSE CASE write.dsts[dst_idx + 1].file = "GPR" ->
              Looked(RegWriter(write, dst_idx), RegReader(read, src_idx),
                     RegLatencySM75_read_after_write(RegWriter(write, dst_idx),
                                                     RegReader(read, src_idx)))
         [] write.dsts[dst_idx + 1].file = "UGPR" ->
              Looked(URegWriter(write, dst_idx), URegReader(read, src_idx),
                     URegLatencySM75_read_after_write(URegWriter(write, dst_idx),
                                                      URegReader(read, src_idx)))
         [] write.dsts[dst_idx + 1].file = "Pred" ->
              Looked(RegWriter(write, dst_idx), RegReader(read, src_idx),
                     RegLatencySM75_pred_read_after_write(RegWriter(write, dst_idx),
                                                          RegReader(read, src_idx)))
         [] write.dsts[dst_idx + 1].file = "UPred" ->
              Looked(URegWriter(write, dst_idx), URegReader(read, src_idx),
                     URegLatencySM75_pred_read_after_write(URegWriter(write, dst_idx),
                                                           URegReader(read, src_idx)))
         [] write.dsts[dst_idx + 1].file = "Carry" -> Cycles(6)
         [] OTHER -> Panic("Not a register")

\* SM75Latency::war; for a destination in Pred the reading op is classified
\* in the writer role.
SM75Latency_war(read, src_idx, write, dst_idx) ==
  IF write.dsts[dst_idx + 1].kind = "None" THEN Cycles(0)
  ELSE CASE write.dsts[dst_idx + 1].file = "GPR" ->
              Looked(RegWriter(write, dst_idx), RegReader(read, src_idx),
                     RegLatencySM75_write_after_read(RegReader(read, src_idx),
                                                     RegWriter(write, dst_idx)))
         [] write.dsts[dst_idx + 1].file = "UGPR" ->
              Looked(URegWriter(write, dst_idx), URegReader(read, src_idx),
                     URegLatencySM75_write_after_read(URegReader(read, src_idx),
                                                      URegWriter(write, dst_idx)))
         [] write.dsts[dst_idx + 1].file = "Pred" ->
              Looked(RegWriter(write, dst_idx), RegWriter(read, src_idx),
                     RegLatencySM75_pred_write_after_read(RegWriter(read, src_idx),
                                                          RegWriter(write, dst_idx)))
         [] write.dsts[dst_idx + 1].file = "UPred" ->
              Looked(URegWriter(write, dst_idx), URegReader(read, src_idx),
                     URegLatencySM75_pred_write_after_read(URegReader(read, src_idx),
                                                           URegWriter(write, dst_idx)))
         [] write.dsts[dst_idx + 1].file = "Carry" -> Cycles(6)
         [] OTHER -> Panic("Not a register")

\* SM75Latency::waw
SM75Latency_waw(a, a_dst_idx, b, b_dst_idx, a_op_pred) ==
  IF a.dsts[a_dst_idx + 1].kind = "None" THEN Cycles(0)
  ELSE CASE a.dsts[a_dst_idx + 1].file = "GPR" ->
              Looked(RegWriter(a, a_dst_idx), RegWriter(b, b_dst_idx),
                     RegLatencySM75_write_after_write(RegWriter(a, a_dst_idx),
                                                      RegWriter(b, b_dst_idx), a_op_pred))
         [] a.dsts[a_dst_idx + 1].file = "UGPR" ->
              Looked(URegWriter(a, a_dst_idx), URegWriter(b, b_dst_idx),
                     URegLatencySM75_write_after_write(URegWriter(a, a_dst_idx),
                                                       URegWriter(b, b_dst_idx), a_op_pred))
         [] a.dsts[a_dst_idx + 1].file = "Pred" ->
              Looked(RegWriter(a, a_dst_idx), RegWriter(b, b_dst_idx),
                     RegLatencySM75_pred_write_after_write(RegWriter(a, a_dst_idx),
                                                           RegWriter(b, b_dst_idx),
                                                           a_op_pred))
         [] a.dsts[a_dst_idx + 1].file = "UPred" ->
              Looked(URegWriter(a, a_dst_idx), URegWriter(b, b_dst_idx),
                     URegLatencySM75_pred_write_after_write(URegWriter(a, a_dst_idx),
                                                            URegWriter(b, b_dst_idx)))
         [] a.dsts[a_dst_idx + 1].file = "Carry" -> Cycles(6)
         [] OTHER -> Panic("Not a register")

\* A predicate-after-write latency that looks the writer up against an ALU
\* reader instead of a guard.
paw_alu_reader(write, dst_idx) ==
  IF write.dsts[dst_idx + 1].kind = "None" THEN Cycles(0)
  ELSE CASE write.dsts[dst_idx + 1].file = "Pred" ->
              Looked(RegWriter(write, dst_idx), "CoupledAlu",
                     RegLatencySM75_pred_read_after_write(RegWriter(write, dst_idx),
                                                          "CoupledAlu"))
         [] write.dsts[dst_idx + 1].file = "UPred" ->
              Looked(URegWriter(write, dst_idx), "Udp",
                     URegLatencySM75_pred_read_after_write(URegWriter(write, dst_idx),
                                                           "Udp"))
         [] OTHER -> Panic("Incorrect register file in paw_latencny")

\* SM75Latency::paw
SM75Latency_paw(write, dst_idx) ==
  IF write.dsts[dst_idx + 1].kind = "None" THEN Cycles(0)
  ELSE CASE write.dsts[dst_idx + 1].file = "Pred" ->
              Looked(RegWriter(write, dst_idx), "GuardPredicate",
                     RegLatencySM75_pred_read_after_write(RegWriter(write, dst_idx),
                                                          "GuardPredicate"))
         [] write.dsts[dst_idx + 1].file = "UPred" ->
              Looked(URegWriter(write, dst_idx), "GuardPredicate",
                     URegLatencySM75_pred_read_after_write(URegWriter(write, dst_idx),
                                                           "GuardPredicate"))
         [] OTHER -> Panic("Incorrect register file in paw_latencny")

\* The ops the oracle is asked about: coupled, decoupled and redirected
\* vector ops, ops with a carry, barrier or absent destination, and ops of
\* the uniform datapath.
OpPool ==
  {OpOf("IAdd3", <<DstSSA("GPR"), DstNone, DstNone>>, 3, FALSE, {}),
   OpOf("ISetP", <<DstSSA("Pred")>>, 4, FALSE, {}),
   OpOf("PLop3", <<DstSSA("Pred"), DstNone>>, 3, FALSE, {}),
   OpOf("CS2R", <<DstReg("GPR", 2)>>, 0, FALSE, {}),
   OpOf("CS2R", <<DstReg("GPR", 1)>>, 0, FALSE, {}),
   OpOf("IMad64", <<DstSSA("GPR")>>, 3, FALSE, {}),
   OpOf("DAdd", <<DstSSA("GPR")>>, 2, FALSE, {}),
   OpOf("FFma", <<DstSSA("GPR")>>, 3, FALSE, {}),
   OpOf("Ld", <<DstSSA("GPR")>>, 2, FALSE, {}),
   OpOf("Ldc", <<DstSSA("GPR")>>, 2, FALSE, {0}),
   OpOf("CCtl", <<>>, 2, FALSE, {}),
   OpOf("IAdd2", <<DstSSA("GPR"), DstSSA("Carry")>>, 2, FALSE, {}),
   OpOf("BMov", <<DstSSA("Bar")>>, 1, FALSE, {}),
   OpOf("BMov", <<DstReg("GPR", 1)>>, 1, FALSE, {}),
   OpOf("Vote", <<DstSSA("GPR"), DstSSA("Pred")>>, 1, FALSE, {}),
   OpOf("IAdd3", <<DstSSA("UGPR"), DstNone, DstNone>>, 3, TRUE, {}),
   OpOf("PLop3", <<DstSSA("UPred"), DstNone>>, 3, TRUE, {}),
   OpOf("Vote", <<DstSSA("UGPR"), DstSSA("UPred")>>, 1, TRUE, {}),
   OpOf("R2UR", <<DstSSA("UGPR")>>, 1, FALSE, {}),
   OpOf("Mov", <<DstSSA("UGPR")>>, 1, TRUE, {}),
   OpOf("HAdd2", <<DstSSA("GPR")>>, 2, FALSE, {})}

\* What needs_scoreboards gives: a boolean, or a panic of the classifier.
Needs(b) == [abort |-> FALSE, value |-> b]

NeedsPanic == [abort |-> TRUE, value |-> FALSE]

\* A needs_scoreboards that asks for scoreboards for the FP16 ops as well.
needs_scoreboards_fp16(op) ==
  IF op.uniform
  THEN LET c == URegLatencySM75_op_category(op, FALSE, 0)
       IN IF c = NoCategory THEN NeedsPanic ELSE Needs(c = "R2UR")
  ELSE LET c == RegLatencySM75_op_category(op, TRUE, 0)
       IN IF c = NoCategory THEN NeedsPanic
          ELSE Needs(c \in {"RedirectedFP64", "RedirectedFP16",
                            "RedirectedHMMA_884_F16", "RedirectedHMMA_884_F32",
                            "RedirectedHMMA_1688", "RedirectedHMMA_16816", "IMMA",
                            "Decoupled"})

\* SM75Latency::needs_scoreboards
SM75Latency_needs_scoreboards(op) ==
  IF op.uniform
  THEN LET c == URegLatencySM75_op_category(op, FALSE, 0)
       IN IF c = NoCategory THEN NeedsPanic ELSE Needs(c = "R2UR")
  ELSE LET c == RegLatencySM75_op_category(op, TRUE, 0)
       IN IF c = NoCategory THEN NeedsPanic
          ELSE Needs(c \in {"RedirectedFP64", "RedirectedHMMA_884_F16",
                            "RedirectedHMMA_884_F32", "RedirectedHMMA_1688",
                            "RedirectedHMMA_16816", "IMMA", "Decoupled"})

\* An op with one of its destinations, an op with one of its sources.
Writes == {w \in OpPool \X (0..2) : w[2] < Len(w[1].dsts)}

Reads == {r \in OpPool \X (0..3) : r[2] < r[1].srcs}

RawCalls ==
  {CallOf("SM75Latency::raw",
          [write |-> c[1][1], dst_idx |-> c[1][2], read |-> c[2][1], src_idx |-> c[2][2]]) :
     c \in Writes \X Reads}

WarCalls ==
  {CallOf("SM75Latency::war",
          [read |-> c[1][1], src_idx |-> c[1][2], write |-> c[2][1], dst_idx |-> c[2][2]]) :
     c \in Reads \X Writes}

WawCalls ==
  {CallOf("SM75Latency::waw",
          [a |-> c[1][1], a_dst_idx |-> c[1][2], b |-> c[2][1], b_dst_idx |-> c[2][2],
           a_op_pred |-> c[3]]) :
     c \in Writes \X Writes \X BOOLEAN}

PawCalls ==
  {CallOf("SM75Latency::paw", [write |-> w[1], dst_idx |-> w[2]]) : w \in Writes}

\* The GPR tables asked about every pair of classes.
ReadAfterWriteCalls ==
  {CallOf("RegLatencySM75::read_after_write", [writer |-> c[1], reader |-> c[2]]) :
     c \in RegLatencySM75 \X RegLatencySM75}

WriteAfterWriteCalls ==
  {CallOf("RegLatencySM75::write_after_write",
          [writer1 |-> c[1], writer2 |-> c[2], has_pred |-> c[3]]) :
     c \in RegLatencySM75 \X RegLatencySM75 \X BOOLEAN}

WriteAfterReadCalls ==
  {CallOf("RegLatencySM75::write_after_read", [reader |-> c[1], writer |-> c[2]]) :
     c \in RegLatencySM75 \X RegLatencySM75}

\* The operand indices the classifiers are asked about.
MaxSrcIdx == 3
MaxDstIdx == 2

\* Both classifiers asked about one op in both roles.
OpCategoryCalls == {CallOf("op_category", [op |-> o]) : o \in OpPool}

NeedsScoreboardsCalls ==
  {CallOf("SM75Latency::needs_scoreboards", [op |-> o]) : o \in OpPool}

LatencyInit ==
  /\ Idle
  /\ call \in RawCalls \cup WarCalls \cup WawCalls \cup PawCalls
              \cup ReadAfterWriteCalls \cup WriteAfterWriteCalls
              \cup WriteAfterReadCalls \cup OpCategoryCalls
              \cup NeedsScoreboardsCalls

CallRaw ==
  /\ call.fn = "SM75Latency::raw"
  /\ Return(SM75Latency_raw(call.args.write, call.args.dst_idx, call.args.read,
                            call.args.src_idx))

CallWar ==
  /\ call.fn = "SM75Latency::war"
  /\ Return(SM75Latency_war(call.args.read, call.args.src_idx, call.args.write,
                            call.args.dst_idx))

CallWaw ==
  /\ call.fn = "SM75Latency::waw"
  /\ Return(SM75Latency_waw(call.args.a, call.args.a_dst_idx, call.args.b,
                            call.args.b_dst_idx, call.args.a_op_pred))

CallPaw ==
  /\ call.fn = "SM75Latency::paw"
  /\ Return(SM75Latency_paw(call.args.write, call.args.dst_idx))

CallReadAfterWrite ==
  /\ call.fn = "RegLatencySM75::read_after_write"
  /\ Return(RegLatencySM75_read_after_write(call.args.writer, call.args.reader))

CallWriteAfterWrite ==
  /\ call.fn = "RegLatencySM75::write_after_write"
  /\ Return(RegLatencySM75_write_after_write(call.args.writer1, call.args.writer2,
                                             call.args.has_pred))

CallWriteAfterRead ==
  /\ call.fn = "RegLatencySM75::write_after_read"
  /\ Return(RegLatencySM75_write_after_read(call.args.reader, call.args.writer))

\* RegLatencySM75::op_category and URegLatencySM75::op_category on one op:
\* the class of each operand index in the reader role and in the writer
\* role.
CallOpCategory ==
  /\ call.fn = "op_category"
  /\ Return([reg_reader |-> [i \in 0..MaxSrcIdx |->
                               RegLatencySM75_op_category(call.args.op, TRUE, i)],
             reg_writer |-> [i \in 0..MaxDstIdx |->
                               RegLatencySM75_op_category(call.args.op, FALSE, i)],
             ureg_reader |-> [i \in 0..MaxSrcIdx |->
                                URegLatencySM75_op_category(call.args.op, TRUE, i)],
             ureg_writer |-> [i \in 0..MaxDstIdx |->
                                URegLatencySM75_op_category(call.args.op, FALSE, i)]])

CallNeedsScoreboards ==
  /\ call.fn = "SM75Latency::needs_scoreboards"
  /\ Return(SM75Latency_needs_scoreboards(call.args.op))

LatencyNext ==
  \/ CallRaw
  \/ CallWar
  \/ CallWaw
  \/ CallPaw
  \/ CallReadAfterWrite
  \/ CallWriteAfterWrite
  \/ CallWriteAfterRead
  \/ CallOpCategory
  \/ CallNeedsScoreboards

SpecLatency == LatencyInit /\ [][LatencyNext]_vars

\* ------------------------------------------------------------ properties

\* How often instruction id occurs in the sequence sq.
Occurrences(sq, id) == Cardinality({k \in DOMAIN sq : sq[k] = id})

\* The two sequences hold the same instructions, each as often.
SameInstructions(a, b) ==
  /\ Len(a) = Len(b)
  /\ \A id \in DOMAIN Pool : Occurrences(a, id) = Occurrences(b, id)

\* order holds each index 1..n exactly once.
EachIndexOnce(order, n) ==
  /\ Len(order) = n
  /\ \A i \in 1..n : Cardinality({k \in DOMAIN order : order[k] = i}) = 1

\* Index a stands before index b in the order.
Before(order, a, b) ==
  \E j, k \in DOMAIN order : j < k /\ order[j] = a /\ order[k] = b

\* Instruction b of the unit reads as a source a value instruction a defines.
ReadsFrom(instrs, a, b) == Defs(instrs[a]) \cap SrcUses(instrs[b]) # {}

\* Instruction b of the unit is guarded by a predicate instruction a defines.
GuardedBy(instrs, a, b) == Defs(instrs[a]) \cap Range(Pool[instrs[b]].pred) # {}

\* The function has returned (in a build without debug assertions it returns
\* where a debug assertion would have failed).
Returned == pc = "done"

\* The unit's instructions in the order they are written back in.
WrittenBack(u) ==
  IF units[u].has_order THEN apply(units[u].new_order, units[u].instrs)
  ELSE units[u].instrs

\* C1: after opt_instr_sched_prepass every block holds the same instructions
\* as before, each exactly once; every order generate_order builds, and every
\* order a unit keeps, holds each index of the unit at most (when complete:
\* exactly) once, and apply never finds an instruction scheduled twice.
C1_SameInstructions ==
  /\ Returned => \A b \in DOMAIN orig : SameInstructions(blocks[b], orig[b])
  /\ \A u \in DOMAIN units :
       units[u].has_order => EachIndexOnce(units[u].new_order, Len(units[u].instrs))
  /\ gen.active =>
       \A j, k \in DOMAIN gen.instr_order :
         j # k => gen.instr_order[j] # gen.instr_order[k]
  /\ err # "apply: Instruction scheduled twice"

\* A function has returned with a block of three or more instructions in a
\* new order.
C1_Witness ==
  /\ Returned
  /\ err = "none"
  /\ \E b \in DOMAIN orig : Len(orig[b]) >= 3 /\ blocks[b] # orig[b]

\* C2: in the order of a reorderable unit, an instruction that defines a
\* value stands before every instruction of the unit that reads the value as
\* a source; bottom-up, generate_order emits the readers first.
C2_SourceDependencies ==
  /\ \A u \in DOMAIN units :
       units[u].has_order =>
         \A a, b \in DOMAIN units[u].instrs :
           ReadsFrom(units[u].instrs, a, b) => Before(units[u].new_order, a, b)
  /\ gen.active =>
       \A k \in DOMAIN gen.instr_order :
         \A b \in DOMAIN units[gen.unit].instrs :
           ReadsFrom(units[gen.unit].instrs, gen.instr_order[k], b)
             => \E j \in 1..(k - 1) : gen.instr_order[j] = b

\* A unit got a new order that is not the original one, built with both
\* selection regimes, and one of its instructions reads from another.
C2_Witness ==
  \E k \in DOMAIN attempts :
    /\ attempts[k].ok
    /\ attempts[k].regimes = {"low", "high"}
    /\ LET u == units[attempts[k].unit]
       IN /\ u.has_order
          /\ u.new_order # [i \in DOMAIN u.instrs |-> i]
          /\ \E a, b \in DOMAIN u.instrs : ReadsFrom(u.instrs, a, b)

\* C3: in the order of a reorderable unit, an instruction that defines a
\* predicate stands before every instruction of the unit the predicate
\* guards; bottom-up, generate_order emits the guarded instructions first.
C3_PredicateDependencies ==
  /\ \A u \in DOMAIN units :
       units[u].has_order =>
         \A a, b \in DOMAIN units[u].instrs :
           GuardedBy(units[u].instrs, a, b) => Before(units[u].new_order, a, b)
  /\ gen.active =>
       \A k \in DOMAIN gen.instr_order :
         \A b \in DOMAIN units[gen.unit].instrs :
           GuardedBy(units[gen.unit].instrs, gen.instr_order[k], b)
             => \E j \in 1..(k - 1) : gen.instr_order[j] = b

\* A unit with a predicate definition and the instruction it guards got an
\* order in the high-pressure regime.
C3_Witness ==
  \E k \in DOMAIN attempts :
    /\ attempts[k].ok
    /\ "high" \in attempts[k].regimes
    /\ LET u == units[attempts[k].unit]
       IN /\ u.has_order
          /\ \E a, b \in DOMAIN u.instrs : GuardedBy(u.instrs, a, b)

IsMemory(id) == Pool[id].side = "Memory"

\* The Memory instructions of a sequence, in their order.
MemorySubsequence(sq) == SelectSeq(sq, IsMemory)

\* C4: the Memory instructions of every block are the same sequence before
\* and after scheduling, and so are those of every unit that has an order.
C4_MemoryOrder ==
  /\ Returned =>
       \A b \in DOMAIN orig :
         MemorySubsequence(blocks[b]) = MemorySubsequence(orig[b])
  /\ \A u \in DOMAIN units :
       units[u].has_order =>
         MemorySubsequence(WrittenBack(u)) = MemorySubsequence(units[u].instrs)

\* A block with two Memory instructions has returned in a new order.
C4_Witness ==
  /\ Returned
  /\ \E b \in DOMAIN orig :
       /\ blocks[b] # orig[b]
       /\ Len(MemorySubsequence(orig[b])) >= 2

\* The Barrier instructions before position k.
BarriersBefore(sq, k) ==
  Cardinality({j \in 1..(k - 1) : Pool[sq[j]].side = "Barrier"})

\* C5: no instruction moves across a Barrier: after scheduling, a Barrier
\* stands where it stood, every other instruction stands between the same
\* Barriers as before, and a unit that cannot be reordered never gets an order
\* (it is written back as it was).
C5_BarriersKept ==
  /\ Returned =>
       \A b \in DOMAIN orig :
         /\ Len(blocks[b]) = Len(orig[b])
         /\ \A k \in DOMAIN orig[b] :
              /\ Pool[orig[b][k]].side = "Barrier" => blocks[b][k] = orig[b][k]
              /\ \E j \in DOMAIN blocks[b] :
                   /\ blocks[b][j] = orig[b][k]
                   /\ BarriersBefore(blocks[b], j) = BarriersBefore(orig[b], k)
  /\ \A u \in DOMAIN units : ~units[u].can_reorder => ~units[u].has_order

\* A block with a Barrier between other instructions has returned in a new
\* order.
C5_Witness ==
  /\ Returned
  /\ \E b \in DOMAIN orig :
       /\ blocks[b] # orig[b]
       /\ \E k \in 2..(Len(orig[b]) - 1) : Pool[orig[b][k]].side = "Barrier"

\* C6: when the final schedule type is RegLimit(g), the function that is
\* returned never has more than g GPRs live at once (calc_max_live), whatever
\* order its units were written back in.
C6_BudgetRespected ==
  (Returned /\ schedule_type.kind = "RegLimit")
    => calc_max_live(blocks)["GPR"] <= schedule_type.g

\* C7: when generate_order has emitted every instruction of a unit, the live
\* set it is left with has, in every register file, as many values as were
\* live into the unit in the first pass.
C7_LiveCountsReconciled ==
  (pc = "gen" /\ ReadyAfterDrain = {} /\ FutureAfterDrain = {})
    => Counts(gen.live) = units[gen.unit].live_in_count

\* The measure of generate_order's loop: the instructions not yet emitted,
\* counted twice, and one more while nothing is ready.
LoopMeasure ==
  2 * (Len(units[gen.unit].instrs) - Len(gen.instr_order))
    + (IF ReadyAfterDrain = {} THEN 1 ELSE 0)

\* C8: generate_order terminates: an iteration emits one instruction that
\* was not emitted before, or fast-forwards current_cycle to a later cycle at
\* which an instruction is ready, or ends the loop; either way the measure
\* of the loop, which is never negative, goes down; and the loop ends with
\* both lists empty or with a quit (or an assertion).
C8_GenerateOrderTerminates ==
  [][pc = "gen" =>
       /\ LoopMeasure >= 0
       /\ \/ /\ pc' = "gen"
             /\ Len(gen.instr_order') = Len(gen.instr_order) + 1
             /\ Front(gen.instr_order') = gen.instr_order
             /\ Last(gen.instr_order') \notin Range(gen.instr_order)
             /\ LoopMeasure' < LoopMeasure
          \/ /\ pc' = "gen"
             /\ gen.instr_order' = gen.instr_order
             /\ gen.current_cycle' > gen.current_cycle
             /\ ReadyAfterDrain = {}
             /\ ReadyAfterDrain' # {}
             /\ LoopMeasure' < LoopMeasure
          \/ /\ pc' \in {"ret2", "apply"}
             /\ \/ Last(attempts').ok /\ ReadyAfterDrain = {} /\ FutureAfterDrain = {}
                \/ ~Last(attempts').ok /\ ReadyAfterDrain # {}
          \/ pc' = "panic"]_vars

\* generate_order has fast-forwarded over idle cycles and emitted
\* instructions before and after.
C8_Witness ==
  /\ pc = "gen"
  /\ Len(gen.instr_order) >= 3
  /\ gen.current_cycle > Len(gen.instr_order) + 1
  /\ ReadyAfterDrain = {}
  /\ FutureAfterDrain # {}

\* Every attempt to schedule unit u has failed.
Exhausted(u) ==
  /\ units[u].can_reorder
  /\ ~units[u].has_order
  /\ \E k \in DOMAIN attempts : attempts[k].unit = u

\* The third pass has written back every unit.
WrittenBackAll == pc \in {"done", "panic"} /\ schedule_type # NoType /\ ui > Len(units)

\* C9: a unit that fails under every schedule type tried keeps no order, its
\* instructions are written back as they were, and the function returns
\* without a failure.
C9_FailureNotSurfaced ==
  \A u \in DOMAIN units :
    (Exhausted(u) /\ WrittenBackAll) =>
      /\ units[u].new_order = <<>>
      /\ \E k \in 0..Len(blocks[units[u].block_idx]) :
           SubSeq(blocks[units[u].block_idx], k + 1, k + Len(units[u].instrs))
             = units[u].instrs
      /\ pc = "done"
      /\ err = "none"

\* The list get_schedule_types returned to the driver.
TypeList ==
  get_schedule_types(max_regs, min_gpr_target, max_gpr_target,
                     SW_RESERVED_GPRS + hw_reserved)

IsPass2(a) == a.caller = "pass2"

\* The finished schedule calls of the second pass, in their order.
Pass2Attempts == SelectSeq(attempts, IsPass2)

\* The failed ones among the first k calls.
Failures(a, k) == Cardinality({j \in 1..k : ~a[j].ok})

Called(f) == call.fn = f /\ call.done

\* C11: for every x in [0, 255], y = next_occupancy_cliff(x) is at least x,
\* gives the same occupancy as x, and one register more than y gives a
\* strictly lower occupancy.
C11_OccupancyCliff ==
  Called("next_occupancy_cliff") =>
    /\ call.result >= call.args.x
    /\ occupancy_in_warps_per_sm(call.result) = occupancy_in_warps_per_sm(call.args.x)
    /\ occupancy_in_warps_per_sm(call.result + 1) < occupancy_in_warps_per_sm(call.result)

\* A cliff strictly above its argument, at the top of the range.
C11_Witness ==
  /\ Called("next_occupancy_cliff")
  /\ call.args.x >= 250
  /\ call.result > call.args.x

\* C12: with everything else fixed and d1 <= d2, the score at delay d2 is not
\* greater than the score at delay d1 in the order of (usable,
\* Reverse(badness), goodness).
C12_DelayNeverImproves ==
  Called("calc_score") => ~ScoreLess(call.result[1], call.result[2])

\* A usable instruction whose score is strictly worse at the larger delay.
C12_Witness ==
  /\ Called("calc_score")
  /\ call.args.d1 < call.args.d2
  /\ call.result[1][1]
  /\ ScoreLess(call.result[2], call.result[1])

\* C14: every RegLimit(g) returned by get_schedule_types has
\* g <= max_regs[GPR] - SW_RESERVED_GPRS.
C14_RegLimitCapped ==
  Called("get_schedule_types") =>
    \A k \in DOMAIN call.result :
      call.result[k].kind = "RegLimit" =>
        call.result[k].g <= call.args.max_regs["GPR"] - 2

\* C15: Spill is in the list of get_schedule_types only if max_gpr_target is
\* above max_regs[GPR], and then it is the last entry, once, after RegLimits
\* only.
C15_SpillOnlyLast ==
  Called("get_schedule_types") =>
    \A k \in DOMAIN call.result :
      call.result[k].kind = "Spill" =>
        /\ call.args.max_gpr_target > call.args.max_regs["GPR"]
        /\ k = Len(call.result)
        /\ \A j \in 1..(k - 1) : call.result[j].kind = "RegLimit"

\* A list with several RegLimit entries and Spill at its end.
C15_Witness ==
  /\ Called("get_schedule_types")
  /\ Len(call.result) >= 3
  /\ call.result[Len(call.result)].kind = "Spill"

\* C20: every function is handed the same max_regs: sm.num_regs(f) for every
\* file but GPR, and for GPR min(sm.num_regs(GPR), gpr_limit_from_local_size -
\* hw_reserved_gprs) - 2 in a compute stage, sm.num_regs(GPR) - 2 otherwise.
C20_ShaderMaxRegs ==
  Called("Shader::opt_instr_sched_prepass") =>
    \A k \in DOMAIN call.result :
      /\ call.result[k] = call.result[1]
      /\ \A f \in RegFiles \ {"GPR"} : call.result[k][f] = call.args.num_regs[f]
      /\ call.result[k]["GPR"] =
           IF call.args.stage = "Compute"
           THEN Min(call.args.num_regs["GPR"],
                    call.args.gpr_limit - call.args.hw_reserved_gprs) - 2
           ELSE call.args.num_regs["GPR"] - 2

\* A compute shader of several functions whose local size limits the GPRs.
C20_Witness ==
  /\ Called("Shader::opt_instr_sched_prepass")
  /\ call.args.stage = "Compute"
  /\ call.args.functions > 1
  /\ call.args.gpr_limit - call.args.hw_reserved_gprs < call.args.num_regs["GPR"]
  /\ call.result[call.args.functions]["GPR"] = call.args.gpr_limit - call.args.hw_reserved_gprs - 2

RECURSIVE LiveBefore(_, _)
\* The live set of the top-down pass over the original order just before
\* instruction ip of block b.
LiveBefore(b, i) ==
  IF i > 1 THEN insert_instr_top_down(LiveBefore(b, i - 1), orig, b, i - 1).live
  ELSE IF b = 1 THEN {}
  ELSE BlockStartLive(orig, b, LiveBefore(b - 1, Len(orig[b - 1]) + 1))

\* The position in its block of the first instruction of unit u.
FirstIp(u) ==
  1 + Len(Flatten([v \in 1..(u - 1) |->
                     IF units[v].block_idx = units[u].block_idx
                     THEN units[v].instrs ELSE <<>>]))

SetMax(S) == CHOOSE m \in S : \A x \in S : x <= m

\* The most GPRs in use over unit u in the original order: at its start and
\* during each of its instructions.
PeakOnOriginal(u) ==
  LET b == units[u].block_idx
      first == FirstIp(u)
  IN SetMax({calc_used_gprs(Counts(LiveBefore(b, first)), max_regs)} \cup
            {calc_used_gprs(insert_instr_top_down(LiveBefore(b, i), orig, b, i).counts,
                            max_regs) :
               i \in first..(first + Len(units[u].instrs) - 1)})

\* C13: the thresholds of a scheduling attempt are g - 4 and g under
\* RegLimit(g), and under Spill max_regs[GPR] - 2 - 4 and the unit's
\* peak_gpr_count, the peak of the top-down pass over the original order.
C13_Thresholds ==
  (pc = "gen" /\ gen.active) =>
    /\ gen.type.kind = "RegLimit" =>
         /\ gen.th.heuristic_threshold = gen.type.g - 4
         /\ gen.th.quit_threshold = gen.type.g
    /\ gen.type.kind = "Spill" =>
         /\ gen.th.heuristic_threshold = max_regs["GPR"] - 2 - 4
         /\ gen.th.quit_threshold = units[gen.unit].peak_gpr_count
         /\ gen.th.quit_threshold = PeakOnOriginal(gen.unit)

\* A unit scheduled under Spill whose original order needs more GPRs than
\* there are.
C13_Witness ==
  /\ pc = "gen"
  /\ gen.active
  /\ gen.type.kind = "Spill"
  /\ gen.th.quit_threshold > max_regs["GPR"]
  /\ gen.instr_order # <<>>

\* An IAdd3 that writes a GPR.
IAdd3Gpr == OpOf("IAdd3", <<DstSSA("GPR"), DstNone, DstNone>>, 3, FALSE, {})

\* C16: the GPR read-after-write table gives 6 cycles for a CoupledDisp64
\* writer with a CoupledAlu reader, 22 for a RedirectedHMMA_16816 writer with
\* an IMMA reader and 4 for a CoupledAlu writer with a CoupledAlu reader, which
\* is the latency of two dependent IAdd3 on a GPR.
C16_GprRawEntries ==
  /\ Called("RegLatencySM75::read_after_write") =>
       /\ (call.args.writer = "CoupledDisp64" /\ call.args.reader = "CoupledAlu")
            => call.result = Cycles(6)
       /\ (call.args.writer = "RedirectedHMMA_16816" /\ call.args.reader = "IMMA")
            => call.result = Cycles(22)
       /\ (call.args.writer = "CoupledAlu" /\ call.args.reader = "CoupledAlu")
            => call.result = Cycles(4)
  /\ (/\ Called("SM75Latency::raw")
      /\ call.args.write = IAdd3Gpr
      /\ call.args.dst_idx = 0
      /\ call.args.read = IAdd3Gpr) => call.result = Cycles(4)

C16_Witness ==
  /\ Called("SM75Latency::raw")
  /\ call.args.write = IAdd3Gpr
  /\ call.args.dst_idx = 0
  /\ call.args.read = IAdd3Gpr
  /\ call.result.cycles = 4

\* The destination a call of an entry point is about.
DstOf(write, dst_idx) == write.dsts[dst_idx + 1]

\* C17: paw on a destination in the Pred file classifies the writing op in
\* the writer role and looks that class up against a GuardPredicate reader in
\* the predicate read-after-write table, which gives 12 for an ISetP; on a
\* destination that is not None and in a file other than Pred and UPred it
\* aborts.
C17_PawGuardPredicate ==
  Called("SM75Latency::paw") =>
    /\ (/\ DstOf(call.args.write, call.args.dst_idx).kind # "None"
        /\ DstOf(call.args.write, call.args.dst_idx).file = "Pred") =>
         /\ RegLatencySM75_op_category(call.args.write, FALSE, call.args.dst_idx)
              \in RegLatencySM75
         /\ call.result =
              RegLatencySM75_pred_read_after_write(
                RegLatencySM75_op_category(call.args.write, FALSE, call.args.dst_idx),
                "GuardPredicate")
         /\ call.args.write.op = "ISetP" => call.result = Cycles(12)
    /\ (/\ DstOf(call.args.write, call.args.dst_idx).kind # "None"
        /\ DstOf(call.args.write, call.args.dst_idx).file \notin {"Pred", "UPred"}) =>
         call.result.abort

C17_Witness ==
  /\ Called("SM75Latency::paw")
  /\ call.args.write.op = "ISetP"
  /\ DstOf(call.args.write, call.args.dst_idx).file = "Pred"
  /\ call.result = Cycles(12)

\* The dispatch on the file of destination d: 0 for Dst::None, 6 for Carry,
\* and for the other files the latency the tables of that file give.
Dispatched(d, result, gpr, pred_, ugpr, upred) ==
  /\ d.kind = "None" => result = Cycles(0)
  /\ d.kind # "None" =>
       /\ d.file = "Carry" => result = Cycles(6)
       /\ d.file = "GPR" => result = gpr
       /\ d.file = "Pred" => result = pred_
       /\ d.file = "UGPR" => result = ugpr
       /\ d.file = "UPred" => result = upred

\* raw, war and waw dispatch on the file of the written destination.
RawDispatched ==
  Called("SM75Latency::raw") =>
    Dispatched(DstOf(call.args.write, call.args.dst_idx), call.result,
      Looked(RegLatencySM75_op_category(call.args.write, FALSE, call.args.dst_idx),
             RegLatencySM75_op_category(call.args.read, TRUE, call.args.src_idx),
             RegLatencySM75_read_after_write(
               RegLatencySM75_op_category(call.args.write, FALSE, call.args.dst_idx),
               RegLatencySM75_op_category(call.args.read, TRUE, call.args.src_idx))),
      Looked(RegLatencySM75_op_category(call.args.write, FALSE, call.args.dst_idx),
             RegLatencySM75_op_category(call.args.read, TRUE, call.args.src_idx),
             RegLatencySM75_pred_read_after_write(
               RegLatencySM75_op_category(call.args.write, FALSE, call.args.dst_idx),
               RegLatencySM75_op_category(call.args.read, TRUE, call.args.src_idx))),
      Looked(URegLatencySM75_op_category(call.args.write, FALSE, call.args.dst_idx),
             URegLatencySM75_op_category(call.args.read, TRUE, call.args.src_idx),
             URegLatencySM75_read_after_write(
               URegLatencySM75_op_category(call.args.write, FALSE, call.args.dst_idx),
               URegLatencySM75_op_category(call.args.read, TRUE, call.args.src_idx))),
      Looked(URegLatencySM75_op_category(call.args.write, FALSE, call.args.dst_idx),
             URegLatencySM75_op_category(call.args.read, TRUE, call.args.src_idx),
             URegLatencySM75_pred_read_after_write(
               URegLatencySM75_op_category(call.args.write, FALSE, call.args.dst_idx),
               URegLatencySM75_op_category(call.args.read, TRUE, call.args.src_idx))))

WarDispatched ==
  Called("SM75Latency::war") =>
    Dispatched(DstOf(call.args.write, call.args.dst_idx), call.result,
      Looked(RegLatencySM75_op_category(call.args.write, FALSE, call.args.dst_idx),
             RegLatencySM75_op_category(call.args.read, TRUE, call.args.src_idx),
             RegLatencySM75_write_after_read(
               RegLatencySM75_op_category(call.args.read, TRUE, call.args.src_idx),
               RegLatencySM75_op_category(call.args.write, FALSE, call.args.dst_idx))),
      Looked(RegLatencySM75_op_category(call.args.write, FALSE, call.args.dst_idx),
             RegLatencySM75_op_category(call.args.read, FALSE, call.args.src_idx),
             RegLatencySM75_pred_write_after_read(
               RegLatencySM75_op_category(call.args.read, FALSE, call.args.src_idx),
               RegLatencySM75_op_category(call.args.write, FALSE, call.args.dst_idx))),
      Looked(URegLatencySM75_op_category(call.args.write, FALSE, call.args.dst_idx),
             URegLatencySM75_op_category(call.args.read, TRUE, call.args.src_idx),
             URegLatencySM75_write_after_read(
               URegLatencySM75_op_category(call.args.read, TRUE, call.args.src_idx),
               URegLatencySM75_op_category(call.args.write, FALSE, call.args.dst_idx))),
      Looked(URegLatencySM75_op_category(call.args.write, FALSE, call.args.dst_idx),
             URegLatencySM75_op_category(call.args.read, TRUE, call.args.src_idx),
             URegLatencySM75_pred_write_after_read(
               URegLatencySM75_op_category(call.args.read, TRUE, call.args.src_idx),
               URegLatencySM75_op_category(call.args.write, FALSE, call.args.dst_idx))))

WawDispatched ==
  Called("SM75Latency::waw") =>
    Dispatched(DstOf(call.args.a, call.args.a_dst_idx), call.result,
      Looked(RegLatencySM75_op_category(call.args.a, FALSE, call.args.a_dst_idx),
             RegLatencySM75_op_category(call.args.b, FALSE, call.args.b_dst_idx),
             RegLatencySM75_write_after_write(
               RegLatencySM75_op_category(call.args.a, FALSE, call.args.a_dst_idx),
               RegLatencySM75_op_category(call.args.b, FALSE, call.args.b_dst_idx),
               call.args.a_op_pred)),
      Looked(RegLatencySM75_op_category(call.args.a, FALSE, call.args.a_dst_idx),
             RegLatencySM75_op_category(call.args.b, FALSE, call.args.b_dst_idx),
             RegLatencySM75_pred_write_after_write(
               RegLatencySM75_op_category(call.args.a, FALSE, call.args.a_dst_idx),
               RegLatencySM75_op_category(call.args.b, FALSE, call.args.b_dst_idx),
               call.args.a_op_pred)),
      Looked(URegLatencySM75_op_category(call.args.a, FALSE, call.args.a_dst_idx),
             URegLatencySM75_op_category(call.args.b, FALSE, call.args.b_dst_idx),
             URegLatencySM75_write_after_write(
               URegLatencySM75_op_category(call.args.a, FALSE, call.args.a_dst_idx),
               URegLatencySM75_op_category(call.args.b, FALSE, call.args.b_dst_idx),
               call.args.a_op_pred)),
      Looked(URegLatencySM75_op_category(call.args.a, FALSE, call.args.a_dst_idx),
             URegLatencySM75_op_category(call.args.b, FALSE, call.args.b_dst_idx),
             URegLatencySM75_pred_write_after_write(
               URegLatencySM75_op_category(call.args.a, FALSE, call.args.a_dst_idx),
               URegLatencySM75_op_category(call.args.b, FALSE, call.args.b_dst_idx))))

\* The latency of a guard after the write of call.args.write, from the
\* tables of RegLatencySM75 and from those of URegLatencySM75.
RegPaw ==
  Looked(RegLatencySM75_op_category(call.args.write, FALSE, call.args.dst_idx),
         "GuardPredicate",
         RegLatencySM75_pred_read_after_write(
           RegLatencySM75_op_category(call.args.write, FALSE, call.args.dst_idx),
           "GuardPredicate"))

URegPaw ==
  Looked(URegLatencySM75_op_category(call.args.write, FALSE, call.args.dst_idx),
         "GuardPredicate",
         URegLatencySM75_pred_read_after_write(
           URegLatencySM75_op_category(call.args.write, FALSE, call.args.dst_idx),
           "GuardPredicate"))

\* C18, for all four entry points: each of raw, war, waw and paw returns 0 when the indexed
\* destination of the writing op is None and 6 when its file is Carry, uses
\* the RegLatencySM75 tables when the file is GPR or Pred and the
\* URegLatencySM75 tables when it is UGPR or UPred.
C18_EveryEntryPointDispatches ==
  /\ RawDispatched
  /\ WarDispatched
  /\ WawDispatched
  /\ Called("SM75Latency::paw") =>
       Dispatched(DstOf(call.args.write, call.args.dst_idx), call.result,
                  RegPaw, RegPaw, URegPaw, URegPaw)

\* C18, with paw on its own: raw, war and waw return 0 when the indexed destination of
\* the writing op is None and 6 when its file is Carry, use the RegLatencySM75
\* tables when the file is GPR or Pred and the URegLatencySM75 tables when it
\* is UGPR or UPred; paw returns 0 when the destination is None, uses the
\* RegLatencySM75 predicate table when the file is Pred and the
\* URegLatencySM75 one when it is UPred, and aborts on every other file,
\* Carry and GPR included.
C18_DispatchByFile ==
  /\ RawDispatched
  /\ WarDispatched
  /\ WawDispatched
  /\ Called("SM75Latency::paw") =>
       /\ DstOf(call.args.write, call.args.dst_idx).kind = "None" =>
            call.result = Cycles(0)
       /\ DstOf(call.args.write, call.args.dst_idx).kind # "None" =>
            /\ DstOf(call.args.write, call.args.dst_idx).file = "Pred" =>
                 call.result = RegPaw
            /\ DstOf(call.args.write, call.args.dst_idx).file = "UPred" =>
                 call.result = URegPaw
            /\ DstOf(call.args.write, call.args.dst_idx).file \notin {"Pred", "UPred"} =>
                 call.result.abort

C18_Witness ==
  /\ Called("SM75Latency::paw")
  /\ DstOf(call.args.write, call.args.dst_idx).kind # "None"
  /\ DstOf(call.args.write, call.args.dst_idx).file = "Carry"
  /\ call.result.abort

\* The classes that are illegal as a writer.
ReaderOnly == {"IMADWideAB", "DecoupledOther"}

\* C19: read_after_write, write_after_write and write_after_read of
\* RegLatencySM75 abort whenever IMADWideAB or DecoupledOther is given as a
\* writer, and whenever GuardPredicate is given in any position (writer,
\* writer1, writer2 or reader).
C19_IllegalClassesAbort ==
  /\ (/\ Called("RegLatencySM75::read_after_write")
      /\ \/ call.args.writer \in ReaderOnly
         \/ "GuardPredicate" \in {call.args.writer, call.args.reader})
       => call.result.abort
  /\ (/\ Called("RegLatencySM75::write_after_write")
      /\ \/ {call.args.writer1, call.args.writer2} \cap ReaderOnly # {}
         \/ "GuardPredicate" \in {call.args.writer1, call.args.writer2})
       => call.result.abort
  /\ (/\ Called("RegLatencySM75::write_after_read")
      /\ \/ call.args.writer \in ReaderOnly
         \/ "GuardPredicate" \in {call.args.writer, call.args.reader})
       => call.result.abort

\* An iteration of generate_order schedules an instruction.
EmitStep ==
  /\ pc = "gen"
  /\ gen'.active
  /\ Len(gen'.instr_order) = Len(gen.instr_order) + 1

\* The instruction the iteration schedules.
Chosen == Last(gen'.instr_order)

\* The future-ready indices left by the move to the ready list.
FutureIndices == {e.index : e \in FutureAfterDrain}

\* C21: in an iteration of generate_order that selects an instruction, if
\* current_used_gprs <= heuristic_threshold the chosen one is the greatest
\* element of ready in the order of ReadyInstr and never one of future_ready;
\* otherwise it has the maximum score over ready (delay 0) and future_ready
\* (delay ready_cycle - current_cycle), a future-ready one being chosen only
\* when its score is strictly greater than the best ready score, and then
\* current_cycle jumps to its ready_cycle.
C21_Selection ==
  [][EmitStep =>
       IF current_used_gprs(gen.live) <= gen.th.heuristic_threshold
       THEN /\ Chosen \in ReadyAfterDrain
            /\ Chosen \notin FutureIndices
            /\ \A j \in ReadyAfterDrain \ {Chosen} : ReadyLess(gen.g, j, Chosen)
            /\ gen'.current_cycle = gen.current_cycle + 1
       ELSE IF Chosen \in ReadyAfterDrain
       THEN /\ \A j \in ReadyAfterDrain :
                 ~ScoreLess(new_score(Chosen, 0), new_score(j, 0))
            /\ \A e \in FutureAfterDrain :
                 ~ScoreLess(new_score(Chosen, 0), FutureScore(e))
            /\ gen'.current_cycle = gen.current_cycle + 1
       ELSE \E e \in FutureAfterDrain :
              /\ e.index = Chosen
              /\ \A j \in ReadyAfterDrain : ScoreLess(new_score(j, 0), FutureScore(e))
              /\ \A x \in FutureAfterDrain : ~ScoreLess(FutureScore(e), FutureScore(x))
              /\ e.ready_cycle > gen.current_cycle
              /\ gen'.current_cycle = e.ready_cycle + 1]_vars

\* generate_order has taken an instruction from the future-ready list, and
\* has selected in both regimes.
C21_Witness ==
  /\ gen.active
  /\ gen.jumped # {}
  /\ gen.regimes = {"low", "high"}

\* The dependency edges of the unit generate_order runs on, from producer
\* (tail) to consumer (head).
UnitEdges == generate_dep_graph(units[gen.unit].instrs)

\* Instruction i of the unit has been emitted.
Emitted(i) == i \in Range(gen.instr_order)

\* The cycle instruction i was emitted at.
CycleOf(i) == gen.emit_cycle[CHOOSE k \in DOMAIN gen.instr_order : gen.instr_order[k] = i]

\* The instructions of the unit that depend on instruction i.
Dependents(i) == {UnitEdges[k].head : k \in {j \in DOMAIN UnitEdges : UnitEdges[j].tail = i}}

\* C22: the cycles of generate_order respect the latencies of the edges: a
\* producer is emitted (bottom-up) no earlier than each of its consumers'
\* cycle plus the latency of the edge between them, no instruction is emitted
\* at a cycle smaller than its ready_cycle, and an instruction is in ready or
\* future_ready, or emitted, only when all of its dependents in the unit have
\* been emitted.
C22_LatenciesRespected ==
  gen.active =>
    /\ \A k \in DOMAIN UnitEdges :
         (Emitted(UnitEdges[k].tail) /\ Emitted(UnitEdges[k].head)) =>
           CycleOf(UnitEdges[k].tail) >= CycleOf(UnitEdges[k].head) + UnitEdges[k].latency
    /\ \A i \in Range(gen.instr_order) : CycleOf(i) >= gen.g[i].ready_cycle
    /\ \A i \in gen.ready \cup {e.index : e \in gen.future} \cup Range(gen.instr_order) :
         \A d \in Dependents(i) : Emitted(d)
    /\ \A e \in gen.future : e.ready_cycle = gen.g[e.index].ready_cycle

\* generate_order has emitted a whole unit of three or more instructions in
\* which a consumer waits six or more cycles for its producer, and has taken
\* an instruction from the future-ready list.
C22_Witness ==
  /\ gen.active
  /\ pc = "gen"
  /\ Len(gen.instr_order) = Len(units[gen.unit].instrs)
  /\ Len(gen.instr_order) >= 3
  /\ \E k \in DOMAIN UnitEdges : UnitEdges[k].latency >= 6
  /\ gen.jumped # {}

\* C23: after generate_order has emitted instruction i, the live set has, in
\* every register file, as many values as before plus net_live[i].net of that
\* file as it stood just before the iteration; so current_used_gprs() is the
\* predicted net value and the debug_assert_eq at the end of the loop body
\* never fails.
C23_NetPredictsLive ==
  [][EmitStep =>
       /\ \A f \in RegFiles :
            Count(gen'.live, f) = Count(gen.live, f) + gen.counts[Chosen].net[f]
       /\ current_used_gprs(gen'.live) = new_used_gprs_net(Chosen)
       /\ err' # "generate_order: debug_assert_eq!(current_used_gprs, predicted)"]_vars

\* generate_order has emitted a whole unit in which two instructions read
\* the same value, one instruction reads a value twice and a definition is
\* killed.
C23_Witness ==
  /\ gen.active
  /\ Len(gen.instr_order) = Len(units[gen.unit].instrs)
  /\ \E a, b \in DOMAIN units[gen.unit].instrs :
       /\ a # b
       /\ SrcUses(units[gen.unit].instrs[a]) \cap SrcUses(units[gen.unit].instrs[b]) # {}
       /\ ReadsFrom(units[gen.unit].instrs, a, b) \/ ReadsFrom(units[gen.unit].instrs, b, a)
          \/ \E d \in DOMAIN units[gen.unit].instrs : ReadsFrom(units[gen.unit].instrs, d, a)
  /\ err = "none"

\* The units that can be reordered.
Reorderable == {u \in DOMAIN units : units[u].can_reorder}

\* The finished schedule calls of unit u, and the successful ones among them.
AttemptsOf(u) == {k \in DOMAIN attempts : attempts[k].unit = u}
OkAttempts(u) == {k \in AttemptsOf(u) : attempts[k].ok}

\* The greatest element of a non-empty set of indices.
Latest(S) == CHOOSE k \in S : \A j \in S : j <= k

\* The successful schedule calls of the second pass.
Pass2Successes ==
  {k \in DOMAIN attempts : attempts[k].ok /\ attempts[k].caller = "pass2"}

\* C24, for every reorderable unit: when the function has been written
\* back, the final schedule type is the type of the last successful schedule
\* call of the second pass, and every reorderable unit has been scheduled
\* again under it by the third pass, which produced the order written back.
C24_EveryUnitRescheduled ==
  WrittenBackAll =>
    \A u \in Reorderable :
      /\ Pass2Successes # {}
      /\ attempts[Latest(Pass2Successes)].type = schedule_type
      /\ \E k \in OkAttempts(u) :
           /\ attempts[k].caller = "pass3"
           /\ attempts[k].type = schedule_type
           /\ units[u].new_order = attempts[k].order

\* C24, for the units last tried under another type: the final schedule type
\* is the last entry left in the list, which is the type of the last schedule
\* call of the second pass; the third pass schedules again, under the final
\* type and once, exactly the reorderable units whose last call used another
\* type, so that the last call of every reorderable unit used the final type;
\* and the order written back for a unit is the order of its last successful
\* call, or the original order when it has none.
C24_FinalTypeIsLastTried ==
  /\ schedule_type # NoType =>
       /\ schedule_type = Last(schedule_types)
       /\ Pass2Attempts # <<>> => schedule_type = Last(Pass2Attempts).type
       /\ \A k \in DOMAIN attempts :
            attempts[k].caller = "pass3" =>
              /\ attempts[k].type = schedule_type
              /\ attempts[k].unit \in Reorderable
              /\ \A j \in AttemptsOf(attempts[k].unit) :
                   j # k => /\ j < k
                            /\ attempts[j].caller = "pass2"
                            /\ attempts[j].type # schedule_type
  /\ WrittenBackAll =>
       \A u \in DOMAIN units :
         /\ u \in Reorderable =>
              /\ AttemptsOf(u) # {}
              /\ attempts[Latest(AttemptsOf(u))].type = schedule_type
              /\ units[u].last_tried_schedule_type = schedule_type
         /\ units[u].has_order <=> OkAttempts(u) # {}
         /\ units[u].has_order =>
              units[u].new_order = attempts[Latest(OkAttempts(u))].order
         /\ \E k \in 0..Len(blocks[units[u].block_idx]) :
              SubSeq(blocks[units[u].block_idx], k + 1, k + Len(units[u].instrs))
                = IF units[u].has_order
                  THEN apply(units[u].new_order, units[u].instrs)
                  ELSE units[u].instrs

\* A function has returned whose third pass scheduled one unit again, under
\* the type a later unit needed, while that later unit was not scheduled
\* again.
C24_Witness ==
  /\ Returned
  /\ err = "none"
  /\ \E u, v \in Reorderable :
       /\ u # v
       /\ \E k \in OkAttempts(u) :
            /\ attempts[k].caller = "pass3"
            /\ \E j \in OkAttempts(u) : attempts[j].type # attempts[k].type
       /\ \A k \in AttemptsOf(v) : attempts[k].caller = "pass2"
       /\ units[v].has_order

\* C25: the RegLimit entries of the list get_schedule_types returns are
\* strictly increasing: each budget tried later is larger than every budget
\* tried before it.
C25_RegLimitsIncrease ==
  Called("get_schedule_types") =>
    \A j, k \in DOMAIN call.result :
      (/\ j < k
       /\ call.result[j].kind = "RegLimit"
       /\ call.result[k].kind = "RegLimit") => call.result[j].g < call.result[k].g

\* The latency the oracle gives, widened for a producer that is not virtual
\* and has no fixed latency.
WidenedIfReal(oracle, def_id) ==
  IF ~Pool[def_id].virtual /\ ~Pool[def_id].fixed
  THEN Max(oracle, Pool[def_id].var)
  ELSE oracle

\* The latencies of the edges from instruction t to instruction h of the
\* unit being scheduled.
EdgeLatencies(t, h) ==
  {UnitEdges[k].latency :
     k \in {j \in DOMAIN UnitEdges : UnitEdges[j].tail = t /\ UnitEdges[j].head = h}}

\* C26: in the graph generate_dep_graph builds for a unit, an edge for a
\* source read has the latency max(raw_latency, estimate_variable_latency)
\* if its producer is not virtual and has no fixed latency and raw_latency
\* otherwise, and an edge for a predicate guard has the latency
\* max(paw_latency, estimate_variable_latency) under the same condition and
\* paw_latency otherwise.
C26_WidenedWhenNotVirtual ==
  gen.active =>
    LET instrs == units[gen.unit].instrs
    IN \A t, h \in DOMAIN instrs :
         /\ (t < h /\ ReadsFrom(instrs, t, h)) =>
              WidenedIfReal(RawLatency(instrs[t]), instrs[t]) \in EdgeLatencies(t, h)
         /\ (t < h /\ GuardedBy(instrs, t, h)) =>
              WidenedIfReal(PawLatency(instrs[t]), instrs[t]) \in EdgeLatencies(t, h)

\* What file f holds above its size.
Excess(f, n, regs) == Max(0, n - regs[f])

\* C27: calc_used_gprs(p, max_regs) is p[GPR] plus the excess of Bar, the
\* excess of Pred, and the excess of UGPR after the excess of UPred has been
\* added to it; it is at least p[GPR], and it does not decrease when one
\* component of p is raised.
C27_SpillLadder ==
  Called("calc_used_gprs") =>
    LET p == call.args.p
        regs == call.args.max_regs
    IN /\ call.result[1] =
            p["GPR"] + Excess("Bar", p["Bar"], regs) + Excess("Pred", p["Pred"], regs)
              + Excess("UGPR", p["UGPR"] + Excess("UPred", p["UPred"], regs), regs)
       /\ call.result[1] >= p["GPR"]
       /\ call.result[2] >= call.result[1]

\* calc_used_gprs has returned for counts whose UPred excess makes UGPR
\* overflow into GPR, while Bar and Pred overflow as well, and a raise of
\* UPred raises the result.
C27_Witness ==
  /\ Called("calc_used_gprs")
  /\ call.args.p["UPred"] > call.args.max_regs["UPred"]
  /\ call.args.p["UGPR"] <= call.args.max_regs["UGPR"]
  /\ call.args.p["Bar"] > call.args.max_regs["Bar"]
  /\ call.args.p["Pred"] > call.args.max_regs["Pred"]
  /\ call.args.f = "UPred"
  /\ call.result[1] > call.args.p["GPR"] + 3
  /\ call.result[2] > call.result[1]

\* The larger of the two predicted peaks of candidate c, after spilling.
PeakGprs(c) ==
  Max(calc_used_gprs(c.peak1, call.args.max_regs),
      calc_used_gprs(c.peak2, call.args.max_regs))

Usable(c) == PeakGprs(c) <= call.args.th.quit_threshold

\* The badness of candidate c's net counts plus its delay, and its goodness.
Cost(c) == calc_score_part(c.net, call.args.max_regs)[1] + c.delay
Goodness(c) == calc_score_part(c.net, call.args.max_regs)[2]

\* C28: calc_score marks a candidate unusable iff the larger of its two
\* peaks exceeds quit_threshold; a usable candidate ranks strictly above an
\* unusable one; of two usable candidates the one with the smaller badness
\* plus delay ranks higher whatever the goodness, and the goodness decides
\* only when badness plus delay is the same.
C28_ScoreOrder ==
  Called("calc_score_cmp") =>
    LET a == call.args.a
        b == call.args.b
    IN /\ call.result.a[1] <=> Usable(a)
       /\ call.result.b[1] <=> Usable(b)
       /\ (~Usable(a) /\ Usable(b)) => call.result.less
       /\ (Usable(a) /\ ~Usable(b)) => ~call.result.less
       /\ (~Usable(a) /\ ~Usable(b)) => ~call.result.less
       /\ (Usable(a) /\ Usable(b)) =>
            /\ Cost(a) > Cost(b) => call.result.less
            /\ Cost(a) < Cost(b) => ~call.result.less
            /\ Cost(a) = Cost(b) => (call.result.less <=> Goodness(a) < Goodness(b))

\* Two usable candidates have been compared of which the one with the
\* larger goodness ranks lower: its badness plus delay is larger.
C28_Witness ==
  /\ Called("calc_score_cmp")
  /\ Usable(call.args.a)
  /\ Usable(call.args.b)
  /\ Cost(call.args.a) > Cost(call.args.b)
  /\ Goodness(call.args.a) > Goodness(call.args.b)
  /\ call.result.less

\* GenerateOrder::new has just built the counts of the unit being scheduled.
FreshCounts == gen.active /\ gen.instr_order = <<>>

\* The values instruction i of the unit being scheduled reads as sources
\* and that are not live out of the unit.
NewUses(i) == SrcUses(units[gen.unit].instrs[i]) \ units[gen.unit].live_out

\* The values some instruction of the unit is recorded as a user of.
RecordedUses == UNION {NewUses(i) : i \in DOMAIN units[gen.unit].instrs}

\* The values instruction i defines, split into those that are used by a
\* recorded instruction or live out (killed) and the others (dead).
KilledDefs(i) ==
  Defs(units[gen.unit].instrs[i]) \cap (RecordedUses \cup units[gen.unit].live_out)

DeadDefs(i) == Defs(units[gen.unit].instrs[i]) \ KilledDefs(i)

\* C29, with peak2 lowered by a killed definition: NetLive::new gives
\* instruction i, per file, net = uses - killed definitions, peak1 = dead
\* definitions, and peak2 = uses - killed definitions + dead definitions
\* - scalar definitions.
C29_KilledDefLowersPeak2 ==
  FreshCounts =>
    \A i \in DOMAIN gen.counts : \A f \in RegFiles :
      /\ gen.counts[i].net[f] = Count(NewUses(i), f) - Count(KilledDefs(i), f)
      /\ gen.counts[i].peak1[f] = Count(DeadDefs(i), f)
      /\ gen.counts[i].peak2[f] =
           Count(NewUses(i), f) - Count(KilledDefs(i), f) + Count(DeadDefs(i), f)
             - Count(ScalarDefs(units[gen.unit].instrs[i]), f)

\* C29, with peak2 untouched by a killed definition: NetLive::new gives
\* instruction i, per file, net = uses - killed definitions, peak1 = dead
\* definitions, and peak2 = uses + dead definitions - scalar definitions: a
\* killed scalar definition lowers peak2 by 1 in all, a killed vector
\* definition leaves it, a dead vector definition raises it by 1.
C29_KilledDefLowersNet ==
  FreshCounts =>
    \A i \in DOMAIN gen.counts : \A f \in RegFiles :
      /\ gen.counts[i].net[f] = Count(NewUses(i), f) - Count(KilledDefs(i), f)
      /\ gen.counts[i].peak1[f] = Count(DeadDefs(i), f)
      /\ gen.counts[i].peak2[f] =
           Count(NewUses(i), f) + Count(DeadDefs(i), f)
             - Count(ScalarDefs(units[gen.unit].instrs[i]), f)

\* The counts have been built for a unit with a killed scalar definition
\* and a killed vector definition, whose peak2 is not lowered.
C29_Witness ==
  /\ FreshCounts
  /\ \E i, j \in DOMAIN gen.counts :
       /\ KilledDefs(i) \cap ScalarDefs(units[gen.unit].instrs[i]) # {}
       /\ KilledDefs(j) \cap VectorDefs(units[gen.unit].instrs[j]) # {}
       /\ gen.counts[j].peak2["GPR"] = Count(NewUses(j), "GPR")

\* The instruction the step schedules, and the live set once its
\* definitions have been removed.
ChosenInstr == units[gen.unit].instrs[Chosen]
LiveWithoutDefs == gen.live \ Defs(ChosenInstr)

\* How often instruction id reads the value s as a source.
SourceReads(id, s) ==
  Cardinality({k \in DOMAIN Flatten(Pool[id].srcs) : Flatten(Pool[id].srcs)[k] = s})

SrcIdxs(op) == {i \in 0..MaxSrcIdx : i < op.srcs}
DstIdxs(op) == {i \in 0..MaxDstIdx : i < Len(op.dsts)}

\* Some reader operand and some writer operand of the op get different
\* classes from one of the two classifiers (a rejection counts as a class).
RoleChangesClass ==
  \E i \in 0..MaxSrcIdx : \E j \in 0..MaxDstIdx :
    \/ call.result.reg_reader[i] # call.result.reg_writer[j]
    \/ call.result.ureg_reader[i] # call.result.ureg_writer[j]

\* C31, for IMad64, BMov, CS2R and R2UR alike: each of them has operands
\* whose class in the reader role differs from the class in the writer role.
C31_RoleChangesFourOps ==
  (Called("op_category") /\ call.args.op.op \in {"IMad64", "BMov", "CS2R", "R2UR"})
    => RoleChangesClass

\* C31, with BMov and CS2R classified by their destination: IMad64 is
\* IMADWideAB or IMADWideLower as a reader and IMADWideUpper as a writer,
\* R2UR is Decoupled as a GPR reader, rejected as a GPR writer, R2UR as a UGPR
\* writer and rejected as a UGPR reader; BMov and CS2R get the same class in
\* both roles at every operand index: BMov is BMov if its destination is a
\* GPR register and Decoupled otherwise, CS2R is CoupledDisp64 if its
\* destination register has two components and CoupledAlu otherwise, and the
\* uniform classifier rejects both in both roles.
C31_RoleChangesTwoOps ==
  Called("op_category") =>
    LET o == call.args.op
        r == call.result
    IN /\ o.op = "IMad64" =>
            /\ \A i \in SrcIdxs(o) : r.reg_reader[i] \in {"IMADWideAB", "IMADWideLower"}
            /\ \A j \in 0..MaxDstIdx : r.reg_writer[j] = "IMADWideUpper"
       /\ o.op = "R2UR" =>
            /\ \A i \in 0..MaxSrcIdx : r.reg_reader[i] = "Decoupled"
            /\ \A j \in 0..MaxDstIdx : r.reg_writer[j] = NoCategory
            /\ \A i \in 0..MaxSrcIdx : r.ureg_reader[i] = NoCategory
            /\ \A j \in 0..MaxDstIdx : r.ureg_writer[j] = "R2UR"
       /\ o.op \in {"BMov", "CS2R"} =>
            /\ ~RoleChangesClass
            /\ \A i \in 0..MaxSrcIdx : r.ureg_reader[i] = NoCategory
            /\ \A j \in 0..MaxDstIdx : r.ureg_writer[j] = NoCategory
       /\ o.op = "BMov" =>
            r.reg_writer[0] = IF o.dsts[1].kind = "Reg" /\ o.dsts[1].file = "GPR"
                              THEN "BMov" ELSE "Decoupled"
       /\ o.op = "CS2R" =>
            r.reg_writer[0] = IF o.dsts[1].comps = 2 THEN "CoupledDisp64"
                              ELSE "CoupledAlu"

\* Both classifiers have classified a BMov that writes a GPR register: its
\* class is BMov as a reader and as a writer.
C31_Witness ==
  /\ Called("op_category")
  /\ call.args.op.op = "BMov"
  /\ call.result.reg_reader[0] = "BMov"
  /\ call.result.reg_writer[0] = "BMov"

\* The class needs_scoreboards looks at for a non-uniform op.
ReaderClass(op) == RegLatencySM75_op_category(op, TRUE, 0)

RedirectedHMMA ==
  {"RedirectedHMMA_884_F16", "RedirectedHMMA_884_F32", "RedirectedHMMA_1688",
   "RedirectedHMMA_16816"}

CoupledClasses ==
  {"CoupledDisp64", "CoupledDisp", "CoupledAlu", "CoupledFMA", "IMADLo",
   "IMADWideAB", "IMADWideLower", "IMADWideUpper"}

UnitsOf(b) == SelectSeq(units, LAMBDA u : u.block_idx = b)

RECURSIVE ConcatInstrs(_)
\* The instructions of a list of units, one unit after the other.
ConcatInstrs(us) ==
  IF us = <<>> THEN <<>> ELSE Head(us).instrs \o ConcatInstrs(Tail(us))

\* The instructions of block b the first pass has pushed so far.
Pushed(b) ==
  IF b = bi THEN SubSeq(orig[b], 1, ip - 1)
  ELSE IF b > bi THEN <<>>
  ELSE orig[b]

\* C33: the units the first pass builds are the maximal runs of each block:
\* a unit is not empty, its instructions are of one block and are all
\* Barriers if it cannot be reordered and all None or Memory if it can, two
\* consecutive units of one block differ in can_reorder, the units are in
\* the order of the blocks, and the units of a block put one after the other
\* are the instructions of the block pushed so far.
C33_MaximalRuns ==
  /\ \A u \in DOMAIN units :
       /\ units[u].instrs # <<>>
       /\ units[u].block_idx \in DOMAIN orig
       /\ \A k \in DOMAIN units[u].instrs :
            units[u].can_reorder <=> side_effect_type(units[u].instrs[k]) # "Barrier"
       /\ u > 1 =>
            /\ units[u - 1].block_idx <= units[u].block_idx
            /\ units[u - 1].block_idx = units[u].block_idx
                 => units[u - 1].can_reorder # units[u].can_reorder
  /\ \A b \in DOMAIN orig : ConcatInstrs(UnitsOf(b)) = Pushed(b)

\* The first pass has finished on a function of two blocks, one of which
\* is split into a reorderable unit, a Barrier unit and a reorderable unit.
C33_Witness ==
  /\ pc = "pass2"
  /\ Len(orig) = 2
  /\ \E u \in DOMAIN units :
       /\ u + 2 \in DOMAIN units
       /\ units[u].block_idx = units[u + 2].block_idx
       /\ units[u].can_reorder
       /\ ~units[u + 1].can_reorder
       /\ units[u + 2].can_reorder

\* generate_order returns None in this step.
QuitStep ==
  /\ pc = "gen"
  /\ Len(attempts') = Len(attempts) + 1
  /\ ~Last(attempts').ok

\* C34: when generate_order returns None, every instruction that is in the
\* ready list or in the future-ready list at that step has a predicted peak
\* above quit_threshold.
C34_QuitsOnlyWhenNothingFits ==
  [][QuitStep =>
       \A i \in ReadyAfterDrain \cup FutureIndices :
         predicted_new_used_gprs_peak(i) > gen.th.quit_threshold]_vars

\* C34, for the instruction that was picked: generate_order returns None
\* exactly when the predicted peak of the instruction it picked is above
\* quit_threshold.  Under high pressure every instruction of the two lists is
\* then above quit_threshold; under low pressure the pick is the greatest
\* ReadyInstr whatever its peak.
C34_QuitsOnPickedCandidate ==
  [][/\ QuitStep =>
          /\ predicted_new_used_gprs_peak(Pick.index) > gen.th.quit_threshold
          /\ current_used_gprs(gen.live) > gen.th.heuristic_threshold =>
               \A i \in ReadyAfterDrain \cup FutureIndices :
                 predicted_new_used_gprs_peak(i) > gen.th.quit_threshold
          /\ current_used_gprs(gen.live) <= gen.th.heuristic_threshold =>
               /\ Pick.index \in ReadyAfterDrain
               /\ \A j \in ReadyAfterDrain \ {Pick.index} :
                    ReadyLess(gen.g, j, Pick.index)
     /\ EmitStep =>
          predicted_new_used_gprs_peak(Chosen) <= gen.th.quit_threshold]_vars

\* generate_order has returned None under low pressure while another
\* instruction of the ready list was within quit_threshold.
C34_Witness ==
  /\ attempts # <<>>
  /\ ~Last(attempts).ok
  /\ Last(attempts).quit_regime = "low"
  /\ Last(attempts).fitting # {}


\* ------------------------------------------------ predicate guards (C35)

\* The SSA values that unit u reads only as the predicate guard of one of
\* its instructions: not defined in the unit, not a source of any of its
\* instructions and not live out of it.
GuardOnly(u) ==
  LET instrs == units[u].instrs
  IN {s \in UNION {Range(Pool[instrs[i]].pred) : i \in DOMAIN instrs} :
        /\ \A i \in DOMAIN instrs : s \notin Defs(instrs[i]) \cup SrcUses(instrs[i])
        /\ s \notin units[u].live_out}

\* C35: the bottom-up liveness counts a predicate guard as a use, as the
\* top-down pass does: when generate_order has emitted every instruction of
\* a unit that reads a live-in value only as a guard, its final live counts
\* are the unit's live-in counts.
C35_GuardCountedBottomUp ==
  (/\ pc = "gen"
   /\ ReadyAfterDrain = {}
   /\ FutureAfterDrain = {}
   /\ GuardOnly(gen.unit) # {})
    => /\ GuardOnly(gen.unit) \subseteq gen.live
       /\ Counts(gen.live) = units[gen.unit].live_in_count


\* --------------------------------------- first-pass assertions (C36)

\* The ways the unit bookkeeping of the first pass can stop the pass.
UnitPanics ==
  {"push_instr: assert_eq!(last.block_idx, block_idx)",
   "finish_block: unwrap on no unit",
   "finish_block: assert!(last.live_out.is_none())",
   "finish_block: assert_eq!(last.block_idx, block_idx)",
   "schedule: live_out unwrap on None"}

\* C36: in every function, a block without instructions included, the
\* assertions of push_instr and finish_block hold: finish_block finds a last
\* unit, of its own block and, if reorderable, without live_out; and once
\* the first pass is over every reorderable unit has its live_out.
C36_UnitBookkeepingNeverFails ==
  /\ err \notin UnitPanics
  /\ (pc = "pass1" /\ ip > Len(orig[bi]))
       => /\ units # <<>>
          /\ Last(units).block_idx = bi
          /\ Last(units).can_reorder => ~Last(units).has_live_out
  /\ pc \in {"pass2", "ret2", "gen", "pass3", "apply", "done"}
       => \A u \in DOMAIN units : units[u].can_reorder => units[u].has_live_out


\* ------------------------------------------------ the roles of war (C37)

\* The write-after-read latency with the reading op classified as a reader
\* of its source and the writing op as a writer of its destination, in the
\* tables of the destination's file.
WarWithRawRoles(read, src_idx, write, dst_idx) ==
  LET file == write.dsts[dst_idx + 1].file
      rr == RegReader(read, src_idx)
      rw == RegWriter(write, dst_idx)
      ur == URegReader(read, src_idx)
      uw == URegWriter(write, dst_idx)
  IN CASE file = "GPR" -> Looked(rw, rr, RegLatencySM75_write_after_read(rr, rw))
       [] file = "UGPR" -> Looked(uw, ur, URegLatencySM75_write_after_read(ur, uw))
       [] file = "Pred" -> Looked(rw, rr, RegLatencySM75_pred_write_after_read(rr, rw))
       [] file = "UPred" -> Looked(uw, ur, URegLatencySM75_pred_write_after_read(ur, uw))

\* C37: for a destination in GPR, UGPR, Pred or UPred, war classifies the
\* reading op in the reader role and the writing op in the writer role, the
\* roles raw gives them.
C37_WarUsesRawRoles ==
  Called("SM75Latency::war")
    => LET a == call.args
           d == a.write.dsts[a.dst_idx + 1]
       IN (d.kind # "None" /\ d.file \in {"GPR", "UGPR", "Pred", "UPred"})
            => call.result = WarWithRawRoles(a.read, a.src_idx, a.write, a.dst_idx)


\* ------------------------------------------- the scheduling clock (C38)

\* One step inside a run of generate_order.
SameRun == gen.active /\ gen'.active

\* C38: after the move to the ready list every future-ready entry has a
\* ready_cycle beyond current_cycle, so the delay handed to the score is at
\* least 1 and neither fast-forward assertion fails; current_cycle never
\* goes back, and it grows with every instruction emitted.
C38_ClockMovesForward ==
  /\ [](/\ err # "generate_order: assert!(ready_cycle > current_cycle)"
        /\ pc = "gen" =>
             /\ \A e \in FutureAfterDrain :
                  /\ e.ready_cycle > gen.current_cycle
                  /\ e.ready_cycle - gen.current_cycle >= 1
             /\ \A k \in DOMAIN gen.emit_cycle :
                  /\ gen.emit_cycle[k] < gen.current_cycle
                  /\ k > 1 => gen.emit_cycle[k - 1] < gen.emit_cycle[k])
  /\ [][SameRun =>
          /\ gen'.current_cycle >= gen.current_cycle
          /\ Len(gen'.instr_order) > Len(gen.instr_order)
               => gen'.current_cycle > gen.current_cycle]_vars

\* A run that has taken a better candidate from the future-ready list,
\* fast-forwarding past an idle cycle, and after the move still holds an
\* entry that is not ready.
C38_Witness ==
  /\ pc = "gen"
  /\ gen.jumped # {}
  /\ \E k \in DOMAIN gen.emit_cycle : k > 1 /\ gen.emit_cycle[k] > gen.emit_cycle[k - 1] + 1
  /\ FutureAfterDrain # {}


\* ------------------------- get_schedule_types and the working list (C39)
\* get_schedule_types run one iteration of its loop at a time, followed by
\* the second pass of the driver on the list it returns.  The locals of
\* get_schedule_types are in call; what ScheduleUnit::schedule makes of a
\* unit is left open, so every sequence of successes and failures occurs.

MaxUnits == 2

\* A unit of which the second pass reads can_reorder and new_order only.
UnitStubs == [can_reorder : BOOLEAN, has_order : {FALSE}]

reserved_gprs == SW_RESERVED_GPRS + hw_reserved

\* The driver at the call of get_schedule_types, gpr_target at the first
\* cliff.
TypesInit ==
  /\ orig = <<>>
  /\ blocks = <<>>
  /\ max_regs \in {NumRegs(g) : g \in {6, 36, 37, 60, 100, 251}}
  /\ hw_reserved \in {0, 2}
  /\ min_gpr_target \in {1, 30, 40}
  /\ max_gpr_target \in {1, 37, 50, 61, 252}
  /\ min_gpr_target <= max_gpr_target
  /\ units \in UNION {[1..n -> UnitStubs] : n \in 1..MaxUnits}
  /\ pc = "types"
  /\ err = "none"
  /\ bi = 0
  /\ ip = 0
  /\ live_set = {}
  /\ live_out_sets = <<>>
  /\ schedule_types = <<>>
  /\ ui = 0
  /\ schedule_type = NoType
  /\ gen = NoGen
  /\ attempts = <<>>
  /\ call = [fn |-> "get_schedule_types", done |-> FALSE, out |-> <<>>,
             gpr_target |-> next_occupancy_cliff_with_reserved(min_gpr_target,
                                                               reserved_gprs)]

\* get_schedule_types returns out to the driver, which reverses it.
TypesReturn(out) ==
  /\ call' = [call EXCEPT !.done = TRUE, !.out = out]
  /\ schedule_types' = Reverse(out)
  /\ ui' = 1
  /\ pc' = "pass2"
  /\ UNCHANGED <<orig, max_regs, hw_reserved, blocks, err, bi, ip, live_set,
                 live_out_sets, min_gpr_target, max_gpr_target, units,
                 schedule_type, gen, attempts>>

\* An iteration of the while loop that goes on to the next cliff.
TypesNextCliff ==
  /\ pc = "types"
  /\ call.gpr_target < max_regs["GPR"]
  /\ call.gpr_target < max_gpr_target
  /\ call' = [call EXCEPT
                !.out = Append(@, RegLimit(call.gpr_target)),
                !.gpr_target =
                   next_occupancy_cliff_with_reserved(call.gpr_target + 1,
                                                      reserved_gprs)]
  /\ UNCHANGED idle_vars

\* The iteration that reaches max_gpr_target: return out.
TypesReturnInLoop ==
  /\ pc = "types"
  /\ call.gpr_target < max_regs["GPR"]
  /\ call.gpr_target >= max_gpr_target
  /\ TypesReturn(Append(call.out, RegLimit(call.gpr_target)))

\* The loop is left at max_regs[GPR]: the capped entry, and Spill if the
\* original order spilled.
TypesReturnAfterLoop ==
  /\ pc = "types"
  /\ call.gpr_target >= max_regs["GPR"]
  /\ LET out1 == Append(call.out, RegLimit(max_regs["GPR"] - SW_RESERVED_GPRS))
     IN TypesReturn(IF max_gpr_target > max_regs["GPR"]
                    THEN Append(out1, Spill) ELSE out1)

\* u.schedule(...) in the second pass: new_order is set or stays None.
ScheduleOutcome ==
  /\ pc = "pass2"
  /\ ui <= Len(units)
  /\ units[ui].can_reorder
  /\ \E ok \in BOOLEAN : units' = [units EXCEPT ![ui].has_order = ok]
  /\ pc' = "ret2"
  /\ UNCHANGED <<call, orig, max_regs, hw_reserved, blocks, err, bi, ip, live_set,
                 live_out_sets, min_gpr_target, max_gpr_target,
                 schedule_types, ui, schedule_type, gen, attempts>>

TypesNext ==
  \/ TypesNextCliff
  \/ TypesReturnInLoop
  \/ TypesReturnAfterLoop
  \/ ScheduleOutcome
  \/ Pass2Skip
  \/ Pass2Result
  \/ Pass2End

\* Every function that is called runs on: the loop of get_schedule_types
\* and the second pass are sequential code.
SpecTypes == TypesInit /\ [][TypesNext]_vars /\ WF_vars(TypesNext)

UsedAt(b, i) ==
  calc_used_gprs(insert_instr_top_down(LiveBefore(b, i), orig, b, i).counts, max_regs)

Positions == UNION {{<<b, i>> : i \in DOMAIN orig[b]} : b \in DOMAIN orig}

FirstPassOver == pc \in {"pass2", "ret2", "gen", "pass3", "apply", "done"}

\* C40: once the first pass is over, 1 <= min_gpr_target <= max_gpr_target;
\* max_gpr_target is the largest used-GPR value at an instruction of the
\* original order, or 1; min_gpr_target is the largest one at an
\* instruction that cannot be reordered, or 1; and no unit's peak_gpr_count
\* is above max_gpr_target.
C40_GprTargets ==
  FirstPassOver =>
    /\ 1 <= min_gpr_target
    /\ min_gpr_target <= max_gpr_target
    /\ max_gpr_target = SetMax({1} \cup {UsedAt(p[1], p[2]) : p \in Positions})
    /\ min_gpr_target =
         SetMax({1} \cup {UsedAt(p[1], p[2]) :
                             p \in {q \in Positions :
                                      side_effect_type(orig[q[1]][q[2]]) = "Barrier"}})
    /\ \A u \in DOMAIN units : units[u].peak_gpr_count <= max_gpr_target

\* A first pass that ends with a lower bound from a barrier above 1, an
\* upper bound above it, and a unit that starts with values live.
C40_Witness ==
  /\ FirstPassOver
  /\ 1 < min_gpr_target
  /\ min_gpr_target < max_gpr_target
  /\ \E u \in DOMAIN units :
       /\ units[u].live_in_count["GPR"] > 0
       /\ units[u].peak_gpr_count < max_gpr_target

====
